---- MODULE Spec2Model ----
(***************************************************************************)
(* Model of the technical-analysis engine of kite_backend                  *)
(* (services/technical_analysis_service.py).                               *)
(*                                                                         *)
(* Two state machines share the module:                                    *)
(*   Spec    analyze_stock: the loop over the requested timeframes, each   *)
(*           one fetched, validated and analysed by _analyze_timeframe.    *)
(*   SpecSR  _calculate_support_resistance: merge/dedupe, classification,  *)
(*           ranking, nearest levels and the price-action signal.          *)
(*                                                                         *)
(* Prices are integers (ticks).  The code works on floats; every test it   *)
(* makes on a price is a comparison of ratios, which is stated here by     *)
(* cross-multiplication (prices are positive), so no rounding is modelled. *)
(***************************************************************************)
EXTENDS Integers, Sequences, FiniteSets, TLC

(***************************************************************************)
(* Bounds of the model.                                                    *)
(***************************************************************************)
MaxTimeframes == 3

(***************************************************************************)
(* Program constants.                                                      *)
(***************************************************************************)
MinCandles == 50

VARIABLES
    \* ---- analyze_stock ----
    timeframes,         \* request.timeframes
    market,             \* what the historical-data service answers to the i-th call
    pc,                 \* position in analyze_stock / _analyze_timeframe
    idx,                \* loop position in request.timeframes (1-based)
    historical_data,    \* the HistoricalDataResponse of the current timeframe
    analysis,           \* the TimeframeAnalysis under construction
    timeframe_results,  \* list of finished TimeframeAnalysis
    response,           \* the TechnicalAnalysisResponse returned
    raised,             \* the error analyze_stock raised
    log                 \* logger.error records

tfVars == <<timeframes, market, pc, idx, historical_data, analysis,
            timeframe_results, response, raised, log>>

    \* ---- _calculate_support_resistance ----
VARIABLES
    all_levels,         \* the detected SupportResistanceLevel objects (pivot +
                        \* horizontal + volume), mutated in place by reference
    current_price,      \* df['close'].iloc[-1]
    recent_closes,      \* df['close'].tail(5)
    support_levels,     \* references into all_levels, ranked
    resistance_levels,  \* references into all_levels, ranked
    nearest_support,    \* reference into all_levels, or NoLevel
    nearest_resistance, \* reference into all_levels, or NoLevel
    price_action_signal,
    sr_result,          \* the SupportResistanceResult returned
    detected_levels,    \* the levels as the detection stages built them
    df_close,           \* df['close'], the whole series
    key_level_breaks,   \* what _detect_recent_breaks returned
    sr_pc               \* position in _calculate_support_resistance

srVars == <<all_levels, current_price, recent_closes, support_levels,
            resistance_levels, nearest_support, nearest_resistance,
            price_action_signal, sr_result, detected_levels, df_close,
            key_level_breaks, sr_pc>>

    \* ---- _generate_summary ----
VARIABLES
    tf_results,         \* the TimeframeAnalysis objects passed in, as they are now
    passed_results,     \* the same objects as they were when passed in
    summary,            \* the summary dict under construction, then returned
    sr_summary,         \* the local sr_summary dict
    sum_pc              \* position in _generate_summary

sumVars == <<tf_results, passed_results, summary, sr_summary, sum_pc>>

    \* ---- _analyze_timeframe: the indicators and the pattern detectors ----
VARIABLES
    df,                 \* the candles: rows [open, high, low, close, volume]
    period,             \* the period the moving averages are called with
    macd_windows,       \* the fast, slow and signal periods of the MACD call
    ind_results,        \* the indicator results returned so far
    ind_raised,         \* the error an indicator calculation raised
    ind_pc,             \* position in the indicator calculations
    patterns,           \* the dict _detect_all_patterns is filling
    pat_pc              \* position in _detect_all_patterns

indVars == <<period, macd_windows, ind_results, ind_raised, ind_pc>>
patVars == <<patterns, pat_pc>>

    \* ---- routers/technical_analysis.py: the two endpoints ----
VARIABLES
    http_request,       \* the request being handled
    service_outcome,    \* what analyze_stock does once its body runs
    service_calls,      \* the requests analyze_stock's body has run for
    http_response,      \* the response returned, or the HTTPException raised
    rt_pc               \* position in the endpoint function

routerVars == <<http_request, service_outcome, service_calls, http_response,
                rt_pc>>

    \* ---- AuthService ----
VARIABLES
    kite,               \* self.kite: None, or the client with the token set on it
    access_token,       \* self.access_token
    auth_log            \* the calls made so far, with what each returned

authVars == <<kite, access_token, auth_log>>
endpointVars == <<routerVars, authVars>>

    \* ---- the detection stages of _calculate_support_resistance ----
VARIABLES
    pivot_levels,       \* what _detect_pivot_levels returned
    horizontal_levels,  \* what _detect_horizontal_levels returned
    volume_levels,      \* what _detect_volume_weighted_levels returned
    merged_levels,      \* pivot_levels + horizontal_levels + volume_levels
    stage_raised,       \* the exception a stage raised, or None
    stage_pc            \* the stage that runs next

stageVars == <<pivot_levels, horizontal_levels, volume_levels, merged_levels,
               stage_raised, stage_pc>>

vars == <<tfVars, srVars, sumVars, df, indVars, patVars, endpointVars, stageVars>>

\* What the analysis loop, the engine, the summary, the indicators and the
\* pattern detectors each leave alone.
nonAnalyzeVars ==
    <<srVars, sumVars, df, indVars, patVars, endpointVars, stageVars>>
nonSRVars ==
    <<tfVars, sumVars, df, indVars, patVars, endpointVars, stageVars>>
nonSummaryVars ==
    <<tfVars, srVars, df, indVars, patVars, endpointVars, stageVars>>
nonIndicatorVars ==
    <<tfVars, srVars, sumVars, df, patVars, endpointVars, stageVars>>
nonPatternVars ==
    <<tfVars, srVars, sumVars, df, indVars, endpointVars, stageVars>>
nonRouterVars ==
    <<tfVars, srVars, sumVars, df, indVars, patVars, authVars, stageVars>>
nonStageVars == <<tfVars, srVars, sumVars, indVars, patVars, endpointVars>>
nonAuthVars ==
    <<tfVars, srVars, sumVars, df, indVars, patVars, routerVars, stageVars>>

(***************************************************************************)
(* Values.                                                                 *)
(***************************************************************************)
\* Python's None, for the variables that hold a record.
None == [none |-> TRUE]

TimeframeNames == {"1day", "1hour"}

\* The nine entries _analyze_timeframe adds to analysis.indicators.
IndicatorNames ==
    {"MA_20", "MA_50", "EMA_20", "EMA_50", "RSI", "MACD",
     "BollingerBands", "VWAP", "SupportResistance"}

\* The candle counts the historical-data service may return.
CandleCounts == {0, MinCandles - 1, MinCandles, MinCandles + 1}

\* One answer of the outside world to one _analyze_timeframe call:
\*   fetch   "error": get_historical_data raises (no session, unknown stock)
\*           "ok":    it returns n candles
\*   compute "error": an indicator or pattern computation raises
MarketOutcomes ==
    {[fetch |-> "error", n |-> 0, compute |-> "ok"]}
    \cup {[fetch |-> "ok", n |-> n, compute |-> "ok"] : n \in CandleCounts}
    \cup {[fetch |-> "ok", n |-> n, compute |-> "error"] :
             n \in {c \in CandleCounts : c >= MinCandles}}

\* A reference that is Python's None.
NoLevel == 0

\* The support/resistance engine is not running.
IdleSR ==
    /\ all_levels = <<>>
    /\ current_price = 1
    /\ recent_closes = <<1, 1, 1, 1, 1>>
    /\ support_levels = <<>>
    /\ resistance_levels = <<>>
    /\ nearest_support = NoLevel
    /\ nearest_resistance = NoLevel
    /\ price_action_signal = "None"
    /\ sr_result = None
    /\ detected_levels = <<>>
    /\ df_close = <<1, 1, 1, 1, 1>>
    /\ key_level_breaks = <<>>
    /\ sr_pc = "idle"

\* _generate_summary is not running.
IdleSummary ==
    /\ tf_results = <<>>
    /\ passed_results = <<>>
    /\ summary = None
    /\ sr_summary = None
    /\ sum_pc = "idle"

\* An empty dict.
EmptyDict == [k \in {} |-> None]

\* No indicator is being calculated.
IdleIndicators ==
    /\ period = 1
    /\ macd_windows = <<1, 1, 1>>
    /\ ind_results = EmptyDict
    /\ ind_raised = None
    /\ ind_pc = "idle"

\* _detect_all_patterns is not running.
IdlePatterns ==
    /\ patterns = EmptyDict
    /\ pat_pc = "idle"

\* No timeframe is being analysed.
IdleTimeframe == df = <<>> /\ IdleIndicators /\ IdlePatterns

\* No request is being handled.
IdleRouter ==
    /\ http_request = None
    /\ service_outcome = "response"
    /\ service_calls = <<>>
    /\ http_response = None
    /\ rt_pc = "idle"

\* No AuthService has been constructed.
IdleAuth ==
    /\ kite = None
    /\ access_token = None
    /\ auth_log = <<>>

\* No detection stage is running.
IdleStages ==
    /\ pivot_levels = <<>>
    /\ horizontal_levels = <<>>
    /\ volume_levels = <<>>
    /\ merged_levels = <<>>
    /\ stage_raised = None
    /\ stage_pc = "idle"

IdleEndpoints == IdleRouter /\ IdleAuth

SeqsUpTo(S, n) == UNION {[1..k -> S] : k \in 0..n}

(***************************************************************************)
(* The support/resistance engine: _calculate_support_resistance.           *)
(*                                                                         *)
(* A level is a record [price, level_type, strength, distance_from_current]*)
(* held in all_levels; the lists the code builds hold the same objects, so *)
(* they are sequences of references (indices into all_levels).  A distance *)
(* is the ratio num/den (a percentage).                                    *)
(***************************************************************************)
Abs(x) == IF x < 0 THEN -x ELSE x

SetMin(S) == CHOOSE x \in S : \A y \in S : x <= y

Range(f) == {f[i] : i \in DOMAIN f}

\* abs(level.price - existing.price) / existing.price * 100 < 0.1
IsDuplicate(price, existing_price) ==
    Abs(price - existing_price) * 1000 < existing_price

\* unique_levels.remove(existing): the first element equal (by value) to it.
RemoveFirstEqual(levels, unique, existing) ==
    LET k == SetMin({j \in 1..Len(unique) : levels[unique[j]] = existing})
    IN [j \in 1..(Len(unique) - 1) |-> IF j < k THEN unique[j] ELSE unique[j + 1]]

\* The duplicate-removal loop of _classify_and_rank_levels, from the i-th
\* detected level on; unique holds the references kept so far.
RECURSIVE UniqueLevelsFrom(_, _, _)
UniqueLevelsFrom(levels, i, unique) ==
    IF i > Len(levels) THEN unique
    ELSE
      LET level == levels[i]
          dups == {j \in 1..Len(unique) :
                      IsDuplicate(level.price, levels[unique[j]].price)}
      IN IF dups = {}
         THEN UniqueLevelsFrom(levels, i + 1, Append(unique, i))
         ELSE
           LET existing == levels[unique[SetMin(dups)]]
           IN IF level.strength > existing.strength
              THEN UniqueLevelsFrom(levels, i + 1,
                      Append(RemoveFirstEqual(levels, unique, existing), i))
              ELSE UniqueLevelsFrom(levels, i + 1, unique)

unique_levels(levels) == UniqueLevelsFrom(levels, 1, <<>>)

\* abs(level.price - current_price) / current_price * 100
DistanceFromCurrent_Signed(price, current) ==
    [num |-> (price - current) * 100, den |-> current]
DistanceFromCurrent(price, current) ==
    [num |-> Abs(price - current) * 100, den |-> current]

\* level.price < current_price: support, else resistance.
IsSupport(price, current) == price < current

ClassifiedType_Stage(level, current) == level.level_type
ClassifiedType(level, current) ==
    IF IsSupport(level.price, current) THEN "support" ELSE "resistance"

\* The classification loop: every kept level gets its distance and its
\* level_type rewritten in place.
Classified(levels, unique, current) ==
    [i \in 1..Len(levels) |->
        IF i \in Range(unique)
        THEN [levels[i] EXCEPT
                 !.distance_from_current = DistanceFromCurrent(levels[i].price, current),
                 !.level_type = ClassifiedType(levels[i], current)]
        ELSE levels[i]]

\* list.sort(key=strength, reverse=True): stable, so levels of equal
\* strength keep their order.
RECURSIVE SortByStrength_Ascending(_, _)
SortByStrength_Ascending(levels, refs) ==
    IF refs = <<>> THEN <<>>
    ELSE
      LET low == SetMin({j \in 1..Len(refs) :
                    \A k \in 1..Len(refs) :
                        levels[refs[j]].strength <= levels[refs[k]].strength})
          rest == [j \in 1..(Len(refs) - 1) |->
                      IF j < low THEN refs[j] ELSE refs[j + 1]]
      IN <<refs[low]>> \o SortByStrength_Ascending(levels, rest)
RECURSIVE SortByStrength(_, _)
SortByStrength(levels, refs) ==
    IF refs = <<>> THEN <<>>
    ELSE
      LET top == SetMin({j \in 1..Len(refs) :
                    \A k \in 1..Len(refs) :
                        levels[refs[j]].strength >= levels[refs[k]].strength})
          rest == [j \in 1..(Len(refs) - 1) |->
                      IF j < top THEN refs[j] ELSE refs[j + 1]]
      IN <<refs[top]>> \o SortByStrength(levels, rest)

\* _classify_and_rank_levels: the two ranked lists (of references).
SupportRefs(levels, current) ==
    SortByStrength(levels,
        SelectSeq(unique_levels(levels),
                  LAMBDA r : IsSupport(levels[r].price, current)))

ResistanceRefs(levels, current) ==
    SortByStrength(levels,
        SelectSeq(unique_levels(levels),
                  LAMBDA r : ~IsSupport(levels[r].price, current)))

\* max(valid_levels, key=price) / min(valid_levels, key=price): the first
\* element of the list that attains the extreme price.
FirstMaxPrice(levels, refs) ==
    refs[SetMin({j \in 1..Len(refs) :
            \A k \in 1..Len(refs) : levels[refs[j]].price >= levels[refs[k]].price})]

FirstMinPrice(levels, refs) ==
    refs[SetMin({j \in 1..Len(refs) :
            \A k \in 1..Len(refs) : levels[refs[j]].price <= levels[refs[k]].price})]

\* The list _calculate_support_resistance hands to _find_nearest_level: the
\* whole ranked list, before it is cut to five.
NearestCandidates_TopFive(refs) == SubSeq(refs, 1, IF Len(refs) < 5 THEN Len(refs) ELSE 5)
NearestCandidates(refs) == refs

\* _find_nearest_level
find_nearest_level(levels, refs, current, direction) ==
    IF refs = <<>> THEN NoLevel
    ELSE IF direction = "below"
    THEN LET valid == SelectSeq(refs, LAMBDA r : levels[r].price < current)
         IN IF valid # <<>> THEN FirstMaxPrice(levels, valid) ELSE NoLevel
    ELSE IF direction = "above"
    THEN LET valid == SelectSeq(refs, LAMBDA r : levels[r].price > current)
         IN IF valid # <<>> THEN FirstMinPrice(levels, valid) ELSE NoLevel
    ELSE NoLevel

\* abs(current_price - level.price) / current_price * 100 <= proximity_threshold
WithinProximity_OnePercent(current, price) == Abs(current - price) * 100 <= current
WithinProximity(current, price) == Abs(current - price) * 100 <= 2 * current

\* price_change = (recent_closes[-1] - recent_closes[0]) / recent_closes[0] * 100
PriceChangeBelowMinus1(closes) ==
    (closes[Len(closes)] - closes[1]) * 100 < -closes[1]

PriceChangeAbove1(closes) ==
    (closes[Len(closes)] - closes[1]) * 100 > closes[1]

\* _generate_price_action_signal; closes is df['close'].tail(5).
generate_price_action_signal(levels, closes, current, ns, nr) ==
    IF Len(closes) < 5 THEN "NEUTRAL"
    ELSE IF /\ ns # NoLevel
            /\ WithinProximity(current, levels[ns].price)
            /\ PriceChangeBelowMinus1(closes)
    THEN "APPROACHING_SUPPORT"
    ELSE IF /\ ns # NoLevel
            /\ WithinProximity(current, levels[ns].price)
            /\ current < levels[ns].price
    THEN "BREAKDOWN"
    ELSE IF /\ nr # NoLevel
            /\ WithinProximity(current, levels[nr].price)
            /\ PriceChangeAbove1(closes)
    THEN "APPROACHING_RESISTANCE"
    ELSE IF /\ nr # NoLevel
            /\ WithinProximity(current, levels[nr].price)
            /\ current > levels[nr].price
    THEN "BREAKOUT"
    ELSE "NEUTRAL"

\* _detect_recent_breaks: the thresholds of the code.
MinBreakCandles == 10
RecentCandles == 20
StrongLevel == 5
MaxKeyBreaks == 3

\* df.tail(n): the position in df of its first row.
TailStart(series, n) == IF Len(series) > n THEN Len(series) - n + 1 ELSE 1

\* Support break: previous close above, current close below.
IsBreakdown(level, previous_close, current_close) ==
    /\ level.level_type = "support"
    /\ previous_close > level.price
    /\ current_close < level.price

\* Resistance break: previous close below, current close above.
IsBreakout(level, previous_close, current_close) ==
    /\ level.level_type = "resistance"
    /\ previous_close < level.price
    /\ current_close > level.price

\* The dict appended for a break at row t of df (the timestamp is the row).
BreakRecord(series, level, t) ==
    [timestamp |-> t,
     level_price |-> level.price,
     break_type |-> IF level.level_type = "support" THEN "breakdown" ELSE "breakout",
     significance |-> level.strength,
     price_at_break |-> series[t]]

\* The inner loop, for i in range(1, len(recent_df)): the breaks of one level
\* in row order.
LevelBreaks(series, level) ==
    LET start == TailStart(series, RecentCandles)
        rows == [j \in 1..(Len(series) - start) |-> start + j]
        hits == SelectSeq(rows, LAMBDA t :
                    \/ IsBreakdown(level, series[t - 1], series[t])
                    \/ IsBreakout(level, series[t - 1], series[t]))
    IN [j \in 1..Len(hits) |-> BreakRecord(series, level, hits[j])]

\* The outer loop, from the i-th level of all_levels on; weak levels are
\* skipped.
RECURSIVE AllBreaksFrom(_, _, _)
AllBreaksFrom(series, levels, i) ==
    IF i > Len(levels) THEN <<>>
    ELSE (IF levels[i].strength < StrongLevel
          THEN <<>>
          ELSE LevelBreaks(series, levels[i]))
         \o AllBreaksFrom(series, levels, i + 1)

\* breaks.sort(key=significance, reverse=True): stable.
SortBySignificance_Unsorted(breaks) == breaks
RECURSIVE SortBySignificance(_)
SortBySignificance(breaks) ==
    IF breaks = <<>> THEN <<>>
    ELSE
      LET top == SetMin({j \in 1..Len(breaks) :
                    \A k \in 1..Len(breaks) :
                        breaks[j].significance >= breaks[k].significance})
          rest == [j \in 1..(Len(breaks) - 1) |->
                      IF j < top THEN breaks[j] ELSE breaks[j + 1]]
      IN <<breaks[top]>> \o SortBySignificance(rest)

\* s[:n]
FirstN(s, n) == SubSeq(s, 1, IF Len(s) < n THEN Len(s) ELSE n)

\* _detect_recent_breaks
detect_recent_breaks(series, levels) ==
    IF Len(series) < MinBreakCandles THEN <<>>
    ELSE FirstN(SortBySignificance(AllBreaksFrom(series, levels, 1)), MaxKeyBreaks)

\* support_levels[:5], resistance_levels[:5]
Top(refs) == SubSeq(refs, 1, IF Len(refs) < 5 THEN Len(refs) ELSE 5)

\* A reference read as the value the result stores.
Deref(levels, r) == IF r = NoLevel THEN None ELSE levels[r]

DerefAll(levels, refs) == [j \in 1..Len(refs) |-> levels[refs[j]]]

(***************************************************************************)
(* analyze_stock and _analyze_timeframe.                                   *)
(***************************************************************************)

\* _analyze_timeframe: the series is absent (empty) or too short.
InsufficientData_Off(n) == n = 0 \/ n <= MinCandles
InsufficientData(n) == n = 0 \/ n < MinCandles

\* TimeframeAnalysis(timeframe=..., data_points=len(df)): nothing computed yet.
NewTimeframeAnalysis(tf, n) ==
    [timeframe |-> tf, data_points |-> n, indicators |-> {},
     candlestick_patterns |-> FALSE]

\* The analysis after the nine add_* calls and add_candlestick_patterns.
CompleteAnalysis(a) ==
    [a EXCEPT !.indicators = IndicatorNames, !.candlestick_patterns = TRUE]

\* _generate_summary: the part of the summary analyze_stock's contract names.
generate_summary(results) ==
    [total_timeframes |-> Len(results),
     indicators_calculated |->
        <<"MA", "EMA", "RSI", "MACD", "BollingerBands", "VWAP", "SupportResistance">>]

\* The except branch of the loop body: log the error and continue with the
\* next timeframe; the analysis under construction is dropped.
HandleTimeframeError_Break(msg) ==
    /\ log' = Append(log, [timeframe |-> timeframes[idx], error |-> msg])
    /\ idx' = Len(timeframes) + 1
    /\ pc' = "loop"
    /\ historical_data' = None
    /\ analysis' = None
    /\ UNCHANGED <<timeframes, market, timeframe_results, response, raised>>
HandleTimeframeError(msg) ==
    /\ log' = Append(log, [timeframe |-> timeframes[idx], error |-> msg])
    /\ idx' = idx + 1
    /\ pc' = "loop"
    /\ historical_data' = None
    /\ analysis' = None
    /\ UNCHANGED <<timeframes, market, timeframe_results, response, raised>>

\* `if not timeframe_results` after the loop.
NoSuccessfulAnalysis_AnyFailed == Len(timeframe_results) < Len(timeframes)
NoSuccessfulAnalysis == timeframe_results = <<>>

\* get_historical_data raises: no session, unknown stock, broker error.
FetchRaises ==
    /\ pc = "loop" /\ idx <= Len(timeframes)
    /\ market[idx].fetch = "error"
    /\ HandleTimeframeError("Error fetching historical data")
    /\ UNCHANGED nonAnalyzeVars

\* get_historical_data returns the candles.
FetchReturns ==
    /\ pc = "loop" /\ idx <= Len(timeframes)
    /\ market[idx].fetch = "ok"
    /\ historical_data' = [count |-> market[idx].n]
    /\ pc' = "validate"
    /\ UNCHANGED <<timeframes, market, idx, analysis, timeframe_results,
                   response, raised, log>>
    /\ UNCHANGED nonAnalyzeVars

\* raise ValueError("Insufficient data for analysis ...")
ValidateRejects ==
    /\ pc = "validate"
    /\ InsufficientData(historical_data.count)
    /\ HandleTimeframeError("Insufficient data for analysis")
    /\ UNCHANGED nonAnalyzeVars

\* df and the empty TimeframeAnalysis are built.
ValidateAccepts ==
    /\ pc = "validate"
    /\ ~InsufficientData(historical_data.count)
    /\ analysis' = NewTimeframeAnalysis(timeframes[idx], historical_data.count)
    /\ pc' = "compute"
    /\ UNCHANGED <<timeframes, market, idx, historical_data, timeframe_results,
                   response, raised, log>>
    /\ UNCHANGED nonAnalyzeVars

\* One of the indicator or pattern computations raises.
ComputeRaises ==
    /\ pc = "compute"
    /\ market[idx].compute = "error"
    /\ HandleTimeframeError("Error computing indicators")
    /\ UNCHANGED nonAnalyzeVars

\* All indicators and patterns are added; the analysis is appended.
ComputeReturns ==
    /\ pc = "compute"
    /\ market[idx].compute = "ok"
    /\ timeframe_results' = Append(timeframe_results, CompleteAnalysis(analysis))
    /\ idx' = idx + 1
    /\ pc' = "loop"
    /\ historical_data' = None
    /\ analysis' = None
    /\ UNCHANGED <<timeframes, market, response, raised, log>>
    /\ UNCHANGED nonAnalyzeVars

\* raise ValueError("No successful analysis for any timeframe"), re-raised
\* by the outer handler.
RaiseNoResults ==
    /\ pc = "loop" /\ idx > Len(timeframes)
    /\ NoSuccessfulAnalysis
    /\ raised' = [error |-> "ValueError",
                  message |-> "No successful analysis for any timeframe"]
    /\ pc' = "failed"
    /\ UNCHANGED <<timeframes, market, idx, historical_data, analysis,
                   timeframe_results, response, log>>
    /\ UNCHANGED nonAnalyzeVars

\* The response and its summary are built and returned.
ReturnResponse ==
    /\ pc = "loop" /\ idx > Len(timeframes)
    /\ ~NoSuccessfulAnalysis
    /\ response' = [timeframe_results |-> timeframe_results,
                    summary |-> generate_summary(timeframe_results)]
    /\ pc' = "done"
    /\ UNCHANGED <<timeframes, market, idx, historical_data, analysis,
                   timeframe_results, raised, log>>
    /\ UNCHANGED nonAnalyzeVars

InitAnalyze ==
    /\ timeframes \in SeqsUpTo(TimeframeNames, MaxTimeframes)
    /\ market \in [1..Len(timeframes) -> MarketOutcomes]
    /\ pc = "loop"
    /\ idx = 1
    /\ historical_data = None
    /\ analysis = None
    /\ timeframe_results = <<>>
    /\ response = None
    /\ raised = None
    /\ log = <<>>

Init ==
    InitAnalyze /\ IdleSR /\ IdleSummary /\ IdleTimeframe /\ IdleEndpoints
        /\ IdleStages

Next ==
    \/ FetchRaises
    \/ FetchReturns
    \/ ValidateRejects
    \/ ValidateAccepts
    \/ ComputeRaises
    \/ ComputeReturns
    \/ RaiseNoResults
    \/ ReturnResponse

Spec == Init /\ [][Next]_vars

\* The analysis loop is not running.
IdleAnalyze ==
    /\ timeframes = <<>>
    /\ market = <<>>
    /\ pc = "idle"
    /\ idx = 1
    /\ historical_data = None
    /\ analysis = None
    /\ timeframe_results = <<>>
    /\ response = None
    /\ raised = None
    /\ log = <<>>

\* _detect_pivot_levels: the distance a swing high (labelled resistance) or a
\* swing low (labelled support) is given when it is detected.
PivotDistance(price, type, current) ==
    IF type = "resistance"
    THEN [num |-> (price - current) * 100, den |-> current]
    ELSE [num |-> (current - price) * 100, den |-> price]

\* A level as _detect_pivot_levels builds it.
PivotLevel(price, type, strength, current) ==
    [price |-> price, level_type |-> type, strength |-> strength,
     distance_from_current |-> PivotDistance(price, type, current)]

\* _classify_and_rank_levels (all_levels is updated in place).
ClassifyAndRankLevels ==
    /\ sr_pc = "classify"
    /\ all_levels' = Classified(all_levels, unique_levels(all_levels), current_price)
    /\ support_levels' = SupportRefs(all_levels, current_price)
    /\ resistance_levels' = ResistanceRefs(all_levels, current_price)
    /\ sr_pc' = "nearest"
    /\ UNCHANGED <<current_price, recent_closes, nearest_support,
                   nearest_resistance, price_action_signal, sr_result,
                   detected_levels, df_close, key_level_breaks>>
    /\ UNCHANGED nonSRVars

\* The two _find_nearest_level calls, on the full ranked lists.
FindNearestLevels ==
    /\ sr_pc = "nearest"
    /\ nearest_support' =
          find_nearest_level(all_levels, NearestCandidates(support_levels),
                             current_price, "below")
    /\ nearest_resistance' =
          find_nearest_level(all_levels, NearestCandidates(resistance_levels),
                             current_price, "above")
    /\ sr_pc' = "signal"
    /\ UNCHANGED <<all_levels, current_price, recent_closes, support_levels,
                   resistance_levels, price_action_signal, sr_result,
                   detected_levels, df_close, key_level_breaks>>
    /\ UNCHANGED nonSRVars

\* _generate_price_action_signal
GeneratePriceActionSignal ==
    /\ sr_pc = "signal"
    /\ price_action_signal' =
          generate_price_action_signal(all_levels, recent_closes, current_price,
                                       nearest_support, nearest_resistance)
    /\ sr_pc' = "breaks"
    /\ UNCHANGED <<all_levels, current_price, recent_closes, support_levels,
                   resistance_levels, nearest_support, nearest_resistance,
                   sr_result, detected_levels, df_close, key_level_breaks>>
    /\ UNCHANGED nonSRVars

\* key_level_breaks = self._detect_recent_breaks(df, all_levels)
DetectRecentBreaks ==
    /\ sr_pc = "breaks"
    /\ key_level_breaks' = detect_recent_breaks(df_close, all_levels)
    /\ sr_pc' = "result"
    /\ UNCHANGED <<all_levels, current_price, recent_closes, support_levels,
                   resistance_levels, nearest_support, nearest_resistance,
                   price_action_signal, sr_result, detected_levels, df_close>>
    /\ UNCHANGED nonSRVars

\* return SupportResistanceResult(...)
ReturnSupportResistance ==
    /\ sr_pc = "result"
    /\ sr_result' =
          [support_levels |-> DerefAll(all_levels, Top(support_levels)),
           resistance_levels |-> DerefAll(all_levels, Top(resistance_levels)),
           nearest_support |-> Deref(all_levels, nearest_support),
           nearest_resistance |-> Deref(all_levels, nearest_resistance),
           current_price |-> current_price,
           price_action_signal |-> price_action_signal,
           key_level_breaks |-> key_level_breaks]
    /\ sr_pc' = "done"
    /\ UNCHANGED <<all_levels, current_price, recent_closes, support_levels,
                   resistance_levels, nearest_support, nearest_resistance,
                   price_action_signal, detected_levels, df_close,
                   key_level_breaks>>
    /\ UNCHANGED nonSRVars

(***************************************************************************)
(* Inputs of the engine: the detected levels, the current close and the    *)
(* last five closes.  Three families of level lists are enumerated:        *)
(*   clustered  prices one tick (0.05%) apart around the close, so that    *)
(*              neighbours are duplicates and levels two or three ticks    *)
(*              apart are on either side of the 0.1% test; three strengths;*)
(*   spread     prices at the close and on either side of the 2% proximity *)
(*              test around it, any detection label, with a five-candle    *)
(*              change on either side of the -1% and +1% tests;            *)
(*   ranked     more than five levels, 100 ticks apart, three strengths,   *)
(*              all below or all above the close;                          *)
(*   crossed    levels at and just below the middle of a series of closes  *)
(*              that swings above and below them at its head and its tail, *)
(*              of a length on either side of the 10-candle and 20-candle  *)
(*              tests of _detect_recent_breaks.                            *)
(***************************************************************************)
MaxClusteredLevels == 3
MaxSpreadLevels == 3
MaxRankedLevels == 7

Close == 2000

ClusteredPrices == {Close - 1, Close, Close + 1, Close + 2}
SpreadPrices == {Close - 41, Close - 40, Close, Close + 40, Close + 41}
FirstCloses == {Close - 20, Close - 19, Close, Close + 20, Close + 21}
Strengths == {4, 5, 6}
LevelTypes == {"support", "resistance"}

ClusteredLevels ==
    {PivotLevel(p, IF p < Close THEN "support" ELSE "resistance", s, Close) :
        p \in ClusteredPrices, s \in Strengths}

SpreadLevels ==
    {PivotLevel(p, t, 5, Close) : p \in SpreadPrices, t \in LevelTypes}

RankedPrice(i) == 1000 + 100 * i

RankedLists(current) ==
    UNION {
      {[i \in 1..n |->
           PivotLevel(RankedPrice(i),
                      IF RankedPrice(i) < current THEN "support" ELSE "resistance",
                      st[i], current)] :
          st \in [1..n -> Strengths]} :
      n \in 0..MaxRankedLevels}

MaxCrossedLevels == 2

CrossedPrices == {Close - 10, Close}
SwingCloses == {Close - 20, Close + 20}
SeriesLengths ==
    {MinBreakCandles - 1, MinBreakCandles, RecentCandles, RecentCandles + 1}

CrossedLevels ==
    {PivotLevel(p, IF p < Close THEN "support" ELSE "resistance", s, Close) :
        p \in CrossedPrices, s \in Strengths}

\* Two swinging closes, closes at Close up to length n - 3, three swinging
\* closes.
SwingSeries(n, head, tail) ==
    [t \in 1..n |->
        IF t <= 2 THEN head[t]
        ELSE IF t > n - 3 THEN tail[t - (n - 3)]
        ELSE Close]

CrossedSeries ==
    {SwingSeries(n, head, tail) :
        n \in SeriesLengths,
        head \in [1..2 -> SwingCloses],
        tail \in [1..3 -> SwingCloses]}

\* The closes of a series whose five-candle change is first -> current.
ShortSeries(current, first) == <<first, first, current, current, current>>

StartSR(levels, series) ==
    /\ all_levels = levels
    /\ detected_levels = levels
    /\ df_close = series
    /\ current_price = series[Len(series)]
    /\ recent_closes = SubSeq(series, TailStart(series, 5), Len(series))
    /\ key_level_breaks = <<>>
    /\ support_levels = <<>>
    /\ resistance_levels = <<>>
    /\ nearest_support = NoLevel
    /\ nearest_resistance = NoLevel
    /\ price_action_signal = "None"
    /\ sr_result = None
    /\ sr_pc = "classify"

InitSR ==
    /\ IdleAnalyze
    /\ IdleSummary
    /\ IdleTimeframe
    /\ IdleEndpoints
    /\ IdleStages
    /\ \/ \E levels \in SeqsUpTo(ClusteredLevels, MaxClusteredLevels) :
             StartSR(levels, ShortSeries(Close, Close))
       \/ \E levels \in SeqsUpTo(SpreadLevels, MaxSpreadLevels) :
             \E first \in FirstCloses :
                StartSR(levels, ShortSeries(Close, first))
       \/ \E current \in {RankedPrice(0) + 50, RankedPrice(MaxRankedLevels) + 50} :
             \E levels \in RankedLists(current) :
                StartSR(levels, ShortSeries(current, current))
       \/ \E levels \in SeqsUpTo(CrossedLevels, MaxCrossedLevels) :
             \E series \in CrossedSeries : StartSR(levels, series)

NextSR ==
    \/ ClassifyAndRankLevels
    \/ FindNearestLevels
    \/ GeneratePriceActionSignal
    \/ DetectRecentBreaks
    \/ ReturnSupportResistance

SpecSR == InitSR /\ [][NextSR]_vars

(***************************************************************************)
(* _generate_summary.                                                      *)
(*                                                                         *)
(* A TimeframeAnalysis is a record [timeframe, indicators,                 *)
(* candlestick_patterns]; indicators maps the nine names to the dicts that *)
(* result.dict() stored.  Only the keys _generate_summary reads are kept:  *)
(* 'signal' for the eight indicator results, and support_levels,           *)
(* resistance_levels, price_action_signal and key_level_breaks for         *)
(* SupportResistance, which has no 'signal' key.  A percentage is an       *)
(* integer number of hundredths (8889 is 88.89).                           *)
(***************************************************************************)
Signals == {"BULLISH", "BEARISH", "NEUTRAL", "OVERBOUGHT", "OVERSOLD"}

\* The entries of indicators whose result model has a signal field.
SignalIndicators == IndicatorNames \ {"SupportResistance"}

\* indicator_data.get('signal', 'NEUTRAL')
SignalOf(indicator_data) ==
    IF "signal" \in DOMAIN indicator_data THEN indicator_data.signal ELSE "NEUTRAL"

\* 'BULLISH' in signal, 'BEARISH' in signal: substring tests, which on the
\* five signal values hold of the value itself only.
ContainsBullish(signal) == signal = "BULLISH"
ContainsBearish(signal) == signal = "BEARISH"

\* The entries of tf_result.indicators.items() over all results.
IndicatorEntries(results) ==
    {<<i, name>> \in (DOMAIN results) \X IndicatorNames :
        name \in DOMAIN results[i].indicators}

bullish_count(results) ==
    Cardinality({e \in IndicatorEntries(results) :
        ContainsBullish(SignalOf(results[e[1]].indicators[e[2]]))})

bearish_count(results) ==
    Cardinality({e \in IndicatorEntries(results) :
        LET signal == SignalOf(results[e[1]].indicators[e[2]])
        IN ~ContainsBullish(signal) /\ ContainsBearish(signal)})

neutral_count(results) ==
    Cardinality({e \in IndicatorEntries(results) :
        LET signal == SignalOf(results[e[1]].indicators[e[2]])
        IN ~ContainsBullish(signal) /\ ~ContainsBearish(signal)})

\* round((count / total) * 100, 2), in hundredths.  No count/total met here
\* lies halfway between two hundredths.
RoundedPercentage(count, total) == (((count * 100000) \div total) + 5) \div 10

\* summary["overall_signals"]
overall_signals(results) ==
    LET total_signals ==
            bullish_count(results) + bearish_count(results) + neutral_count(results)
    IN IF total_signals > 0
       THEN [bullish_percentage |->
                 RoundedPercentage(bullish_count(results), total_signals),
             bearish_percentage |->
                 RoundedPercentage(bearish_count(results), total_signals),
             neutral_percentage |->
                 RoundedPercentage(neutral_count(results), total_signals)]
       ELSE EmptyDict

\* The results in which a pattern was found at least once.
FoundIn(results, name) ==
    {i \in DOMAIN results :
        /\ name \in DOMAIN results[i].candlestick_patterns
        /\ results[i].candlestick_patterns[name].total_count > 0}

\* The occurrences of one pattern over those results, as <<i, j>>: the j-th
\* occurrence in the i-th result.
Occurrences(results, name) ==
    UNION {{<<i, j>> : j \in DOMAIN results[i].candlestick_patterns[name].occurrences} :
              i \in FoundIn(results, name)}

\* pattern_summary[name]['total_occurrences'], from the i-th result on.
RECURSIVE TotalOccurrencesFrom(_, _, _)
TotalOccurrencesFrom(results, name, i) ==
    IF i > Len(results) THEN 0
    ELSE (IF i \in FoundIn(results, name)
          THEN results[i].candlestick_patterns[name].total_count
          ELSE 0)
         + TotalOccurrencesFrom(results, name, i + 1)

SetMax(S) == CHOOSE x \in S : \A y \in S : x >= y

\* pattern_summary: one entry per pattern found at least once.  An occurrence
\* is its pattern_type; a timestamp is a number, 0 when absent.
pattern_summary(results) ==
    LET names == UNION {DOMAIN results[i].candlestick_patterns : i \in DOMAIN results}
        typed(n, T) ==
            Cardinality({o \in Occurrences(results, n) :
                results[o[1]].candlestick_patterns[n].occurrences[o[2]] \in T})
    IN [n \in {m \in names : FoundIn(results, m) # {}} |->
          [total_occurrences |-> TotalOccurrencesFrom(results, n, 1),
           bullish_count |-> typed(n, {"bullish"}),
           bearish_count |-> typed(n, {"bearish"}),
           neutral_count |-> typed(n, {"neutral"}),
           last_occurrence |->
               SetMax({0} \cup {results[i].candlestick_patterns[n].last_occurrence :
                                   i \in FoundIn(results, n)})]]

\* sr_summary as _generate_summary creates it.
NewSRSummary ==
    [total_support_levels |-> 0,
     total_resistance_levels |-> 0,
     strongest_support |-> None,
     strongest_resistance |-> None,
     price_action_signals |-> EmptyDict,
     recent_breaks |-> <<>>]

\* max(levels, key=strength): the first level of the greatest strength.
FirstStrongest(levels) ==
    levels[SetMin({j \in 1..Len(levels) :
              \A k \in 1..Len(levels) : levels[j].strength >= levels[k].strength})]

\* "Track strongest levels": the summary's level is replaced only by a
\* strictly stronger one.
TrackStrongest(strongest, levels) ==
    IF levels = <<>> THEN strongest
    ELSE IF strongest = None \/ FirstStrongest(levels).strength > strongest.strength
    THEN FirstStrongest(levels)
    ELSE strongest

\* break_info["timeframe"] = tf_result.timeframe, on the dict itself.
SetTimeframe(break_info, timeframe) ==
    [k \in (DOMAIN break_info) \cup {"timeframe"} |->
        IF k = "timeframe" THEN timeframe ELSE break_info[k]]

\* d[key] = value
DictSet(d, key, value) ==
    [k \in (DOMAIN d) \cup {key} |-> IF k = key THEN value ELSE d[k]]

\* The second loop over timeframe_results, from the i-th result on: what it
\* leaves in sr_summary and in the results themselves.
RECURSIVE AggregateFrom(_, _, _)
AggregateFrom(results, i, sr) ==
    IF i > Len(results) THEN [results |-> results, sr_summary |-> sr]
    ELSE IF "SupportResistance" \notin DOMAIN results[i].indicators
    THEN AggregateFrom(results, i + 1, sr)
    ELSE
      LET sr_data == results[i].indicators["SupportResistance"]
          breaks == [j \in DOMAIN sr_data.key_level_breaks |->
                        SetTimeframe(sr_data.key_level_breaks[j],
                                     results[i].timeframe)]
      IN AggregateFrom(
           [results EXCEPT
               ![i].indicators["SupportResistance"].key_level_breaks = breaks],
           i + 1,
           [total_support_levels |->
                sr.total_support_levels + Len(sr_data.support_levels),
            total_resistance_levels |->
                sr.total_resistance_levels + Len(sr_data.resistance_levels),
            strongest_support |->
                TrackStrongest(sr.strongest_support, sr_data.support_levels),
            strongest_resistance |->
                TrackStrongest(sr.strongest_resistance, sr_data.resistance_levels),
            price_action_signals |->
                DictSet(sr.price_action_signals, results[i].timeframe,
                        sr_data.price_action_signal),
            recent_breaks |-> sr.recent_breaks \o breaks])

\* "Sort recent breaks by significance" and keep the first five.
RankedBreaks(sr) ==
    [sr EXCEPT !.recent_breaks = FirstN(SortBySignificance(@), 5)]

\* summary["support_resistance_summary"] for a list of results.
support_resistance_summary(results) ==
    RankedBreaks(AggregateFrom(results, 1, NewSRSummary).sr_summary)

\* The first loop: signals and patterns.
AggregateSignals ==
    /\ sum_pc = "signals"
    /\ summary' = [summary EXCEPT
                      !.overall_signals = overall_signals(tf_results),
                      !.candlestick_patterns = pattern_summary(tf_results)]
    /\ sr_summary' = NewSRSummary
    /\ sum_pc' = "levels"
    /\ UNCHANGED <<tf_results, passed_results>>
    /\ UNCHANGED nonSummaryVars

\* The second loop: support/resistance data.
AggregateSupportResistance ==
    /\ sum_pc = "levels"
    /\ LET after == AggregateFrom(tf_results, 1, sr_summary)
       IN /\ tf_results' = after.results
          /\ sr_summary' = after.sr_summary
    /\ sum_pc' = "rank"
    /\ UNCHANGED <<passed_results, summary>>
    /\ UNCHANGED nonSummaryVars

\* The breaks are ranked and the summary returned.
ReturnSummary ==
    /\ sum_pc = "rank"
    /\ sr_summary' = RankedBreaks(sr_summary)
    /\ summary' = [summary EXCEPT !.support_resistance_summary = sr_summary']
    /\ sum_pc' = "done"
    /\ UNCHANGED <<tf_results, passed_results>>
    /\ UNCHANGED nonSummaryVars

(***************************************************************************)
(* Inputs of _generate_summary.  Two families of result lists:             *)
(*   signalled  the six trend indicators share one signal, RSI and the     *)
(*              Bollinger bands share another, with or without a pattern;  *)
(*   levelled   all signals NEUTRAL, support and resistance lists with     *)
(*              equal and unequal strengths, and up to three breaks each.  *)
(* The lists are as _calculate_support_resistance leaves them: sorted by   *)
(* strength, breaks sorted by significance, at most three of them.         *)
(***************************************************************************)
MaxSignalledTimeframes == 2
MaxLevelledTimeframes == 2

\* A level dict of the SupportResistance entry.
LevelDict(price, type, strength) ==
    [price |-> price, level_type |-> type, strength |-> strength]

\* A break dict as _detect_recent_breaks builds it.
BreakDict(t, significance) ==
    [timestamp |-> t, level_price |-> Close - 10, break_type |-> "breakdown",
     significance |-> significance, price_at_break |-> Close - 20]

\* The SupportResistance entry.
SupportResistanceDict(supports, resistances, breaks) ==
    [support_levels |-> supports, resistance_levels |-> resistances,
     price_action_signal |-> "NEUTRAL", key_level_breaks |-> breaks]

\* tf_result.candlestick_patterns
NoPatterns ==
    [n \in {"hammer", "doji"} |->
        [total_count |-> 0, occurrences |-> <<>>, last_occurrence |-> 0]]

OneDoji ==
    [NoPatterns EXCEPT !["doji"] =
        [total_count |-> 1, occurrences |-> <<"neutral">>, last_occurrence |-> 7]]

\* A TimeframeAnalysis as _analyze_timeframe returns it.
TimeframeAnalysis(timeframe, trend, oscillator, sr_data, found) ==
    [timeframe |-> timeframe,
     indicators |->
        [n \in IndicatorNames |->
            IF n = "SupportResistance" THEN sr_data
            ELSE IF n \in {"RSI", "BollingerBands"} THEN [signal |-> oscillator]
            ELSE [signal |-> trend]],
     candlestick_patterns |-> found]

SignalledResults ==
    {TimeframeAnalysis("1day", trend, oscillator,
                       SupportResistanceDict(<<>>, <<>>, <<>>), found) :
        trend \in {"BULLISH", "BEARISH", "NEUTRAL"},
        oscillator \in Signals,
        found \in {NoPatterns, OneDoji}}

SupportLists ==
    {<<>>,
     <<LevelDict(Close - 100, "support", 5)>>,
     <<LevelDict(Close - 50, "support", 5)>>,
     <<LevelDict(Close - 50, "support", 6), LevelDict(Close - 100, "support", 6)>>}

\* The resistance list that mirrors a support list above the close.
Mirrored(supports) ==
    [j \in DOMAIN supports |->
        LevelDict(2 * Close - supports[j].price, "resistance", supports[j].strength)]

BreakLists ==
    {<<>>,
     <<BreakDict(48, 5)>>,
     <<BreakDict(49, 6), BreakDict(48, 5)>>,
     <<BreakDict(49, 6), BreakDict(48, 5), BreakDict(50, 5)>>}

LevelledResults ==
    {TimeframeAnalysis(timeframe, "NEUTRAL", "NEUTRAL",
                       SupportResistanceDict(supports, Mirrored(supports), breaks),
                       NoPatterns) :
        timeframe \in TimeframeNames,
        supports \in SupportLists,
        breaks \in BreakLists}

\* _generate_summary is entered with a non-empty list of results.
StartSummary(results) ==
    /\ results # <<>>
    /\ tf_results = results
    /\ passed_results = results
    /\ summary =
          [total_timeframes |-> Len(results),
           indicators_calculated |->
              <<"MA", "EMA", "RSI", "MACD", "BollingerBands", "VWAP",
                "SupportResistance">>,
           overall_signals |-> EmptyDict,
           candlestick_patterns |-> EmptyDict,
           support_resistance_summary |-> EmptyDict]
    /\ sr_summary = None
    /\ sum_pc = "signals"

InitSummary ==
    /\ IdleAnalyze
    /\ IdleSR
    /\ IdleTimeframe
    /\ IdleEndpoints
    /\ IdleStages
    /\ \/ \E results \in SeqsUpTo(SignalledResults, MaxSignalledTimeframes) :
             StartSummary(results)
       \/ \E results \in SeqsUpTo(LevelledResults, MaxLevelledTimeframes) :
             StartSummary(results)

NextSummary ==
    \/ AggregateSignals
    \/ AggregateSupportResistance
    \/ ReturnSummary

SpecSummary == InitSummary /\ [][NextSummary]_vars

(***************************************************************************)
(* The pattern detectors: _detect_all_patterns.                            *)
(*                                                                         *)
(* A candle is a row [open, high, low, close, volume] of integer ticks; a  *)
(* row is named by its position in df, counted from 0 as the code does.    *)
(* The code's floats are numpy float64 values; a quotient is kept as the   *)
(* pair num/den, exactly.  Dividing a positive number by zero gives        *)
(* infinity there (with a warning, without an exception), which is a pair  *)
(* with den = 0; the comparisons below treat it so.                        *)
(***************************************************************************)
Rat(n, d) == [num |-> n, den |-> d]

\* a < b
Less(a, b) == a.num * b.den < b.num * a.den

Plus(a, b) == Rat(a.num * b.den + b.num * a.den, a.den * b.den)

Minus(a, b) == Rat(a.num * b.den - b.num * a.den, a.den * b.den)

Times(a, b) == Rat(a.num * b.num, a.den * b.den)

Min(x, y) == IF x < y THEN x ELSE y

Max(x, y) == IF x > y THEN x ELSE y

\* min(0.9, confidence): the second argument when it is less than 0.9.
Cap_Off(confidence) == confidence
Cap(confidence) ==
    IF Less(confidence, Rat(9, 10)) THEN confidence ELSE Rat(9, 10)

\* df.iloc[i]
Row(candles, i) == candles[i + 1]

\* abs(close - open)
BodyLength(candle) == Abs(candle.close - candle.open)

\* high - low
TotalRange(candle) == candle.high - candle.low

\* min(open, close) - low
LowerShadow(candle) == Min(candle.open, candle.close) - candle.low

\* high - max(open, close)
UpperShadow(candle) == candle.high - Max(candle.open, candle.close)

\* CandlestickPattern(...); the timestamp is the row.
CandlestickPattern(name, type, confidence, i) ==
    [name |-> name, pattern_type |-> type, confidence |-> confidence,
     timestamp |-> i, candle_index |-> i]

\* No timestamp: last_occurrence of a result without occurrences.
NoTimestamp == -1

\* PatternResult(...)
PatternResult(name, occurrences) ==
    [pattern_name |-> name,
     occurrences |-> occurrences,
     total_count |-> Len(occurrences),
     last_occurrence |->
        IF occurrences # <<>>
        THEN occurrences[Len(occurrences)].timestamp
        ELSE NoTimestamp]

\* range(first, len(df))
RowsFrom(candles, first) ==
    [j \in 1..(Len(candles) - first) |-> first + j - 1]

\* Hammer: small body, long lower shadow, minimal upper shadow.
HammerCriteria(candle) ==
    /\ TotalRange(candle) > 0
    /\ Less(Rat(BodyLength(candle), TotalRange(candle)), Rat(3, 10))
    /\ Less(Rat(6, 10), Rat(LowerShadow(candle), TotalRange(candle)))
    /\ Less(Rat(UpperShadow(candle), TotalRange(candle)), Rat(1, 10))

\* 0.5 + (lower_shadow_ratio - body_ratio)
HammerConfidence(candle) ==
    Cap(Plus(Rat(5, 10),
             Minus(Rat(LowerShadow(candle), TotalRange(candle)),
                   Rat(BodyLength(candle), TotalRange(candle)))))

detect_hammer_pattern(candles) ==
    LET hits == SelectSeq(RowsFrom(candles, 0), LAMBDA i :
                    HammerCriteria(Row(candles, i)))
    IN PatternResult("Hammer",
          [j \in DOMAIN hits |->
              CandlestickPattern("Hammer", "bullish",
                  HammerConfidence(Row(candles, hits[j])), hits[j])])

\* Doji: the body is less than 5% of the total range.
DojiCriteria_ZeroRange(candle) == BodyLength(candle) * 20 <= TotalRange(candle)
DojiCriteria(candle) ==
    /\ TotalRange(candle) > 0
    /\ Less(Rat(BodyLength(candle), TotalRange(candle)), Rat(5, 100))

\* 0.8 - body_ratio * 10
DojiConfidence(candle) ==
    Cap(Minus(Rat(8, 10),
              Times(Rat(BodyLength(candle), TotalRange(candle)), Rat(10, 1))))

detect_doji_pattern(candles) ==
    LET hits == SelectSeq(RowsFrom(candles, 0), LAMBDA i :
                    DojiCriteria(Row(candles, i)))
    IN PatternResult("Doji",
          [j \in DOMAIN hits |->
              CandlestickPattern("Doji", "neutral",
                  DojiConfidence(Row(candles, hits[j])), hits[j])])

\* Marubozu: strong body with minimal shadows.
MarubozuCriteria(candle) ==
    /\ TotalRange(candle) > 0
    /\ Less(Rat(9, 10), Rat(BodyLength(candle), TotalRange(candle)))
    /\ Less(Rat(LowerShadow(candle) + UpperShadow(candle), TotalRange(candle)),
            Rat(1, 10))

detect_marubozu_pattern(candles) ==
    LET hits == SelectSeq(RowsFrom(candles, 0), LAMBDA i :
                    MarubozuCriteria(Row(candles, i)))
    IN PatternResult("Marubozu",
          [j \in DOMAIN hits |->
              CandlestickPattern("Marubozu",
                  IF Row(candles, hits[j]).close > Row(candles, hits[j]).open
                  THEN "bullish" ELSE "bearish",
                  Cap(Rat(BodyLength(Row(candles, hits[j])),
                          TotalRange(Row(candles, hits[j])))), hits[j])])

\* Bullish engulfing: a candle that is not bullish, followed by a bullish
\* candle that engulfs it.
BullishEngulfing_HigherHigh(previous, current) ==
    /\ ~(previous.close > previous.open)
    /\ current.close > current.open
    /\ current.open < previous.close
    /\ current.close > previous.open
    /\ current.high > previous.high
    /\ current.low <= previous.low
BullishEngulfing(previous, current) ==
    /\ ~(previous.close > previous.open)
    /\ current.close > current.open
    /\ current.open < previous.close
    /\ current.close > previous.open
    /\ current.high >= previous.high
    /\ current.low <= previous.low

\* Bearish engulfing: a bullish candle followed by a candle that is not
\* bullish and engulfs it.
BearishEngulfing(previous, current) ==
    /\ previous.close > previous.open
    /\ ~(current.close > current.open)
    /\ current.open > previous.close
    /\ current.close < previous.open
    /\ current.high >= previous.high
    /\ current.low <= previous.low

\* 0.6 + (curr_body / prev_body) * 0.1; prev_body is not tested before the
\* division.
EngulfingConfidence(previous, current) ==
    Cap(Plus(Rat(6, 10),
             Times(Rat(BodyLength(current), BodyLength(previous)), Rat(1, 10))))

detect_engulfing_pattern(candles) ==
    LET hits == SelectSeq(RowsFrom(candles, 1), LAMBDA i :
                    \/ BullishEngulfing(Row(candles, i - 1), Row(candles, i))
                    \/ BearishEngulfing(Row(candles, i - 1), Row(candles, i)))
    IN PatternResult("Engulfing",
          [j \in DOMAIN hits |->
              LET previous == Row(candles, hits[j] - 1)
                  current == Row(candles, hits[j])
              IN IF BullishEngulfing(previous, current)
                 THEN CandlestickPattern("Bullish Engulfing", "bullish",
                          EngulfingConfidence(previous, current), hits[j])
                 ELSE CandlestickPattern("Bearish Engulfing", "bearish",
                          EngulfingConfidence(previous, current), hits[j])])

\* Harami: the current body lies inside the previous body and is less than
\* half as long; the division is made only when prev_body_length > 0.
HaramiCriteria(previous, current) ==
    /\ Max(current.open, current.close) < Max(previous.open, previous.close)
    /\ Min(current.open, current.close) > Min(previous.open, previous.close)
    /\ BodyLength(previous) > 0
    /\ Less(Rat(BodyLength(current), BodyLength(previous)), Rat(5, 10))

\* 0.7 - (curr_body_length / prev_body_length)
HaramiConfidence(previous, current) ==
    Cap(Minus(Rat(7, 10), Rat(BodyLength(current), BodyLength(previous))))

detect_harami_pattern(candles) ==
    LET hits == SelectSeq(RowsFrom(candles, 1), LAMBDA i :
                    HaramiCriteria(Row(candles, i - 1), Row(candles, i)))
    IN PatternResult("Harami",
          [j \in DOMAIN hits |->
              LET previous == Row(candles, hits[j] - 1)
                  current == Row(candles, hits[j])
              IN CandlestickPattern("Harami",
                     IF previous.close > previous.open THEN "bearish" ELSE "bullish",
                     HaramiConfidence(previous, current), hits[j])])

\* gap_down: the middle candle's high is below the first candle's body.
GapDown(candle1, candle2) == candle2.high < Min(candle1.open, candle1.close)

\* gap_up: the third candle opens above the middle candle's body.
GapUp(candle2, candle3) == candle3.open > Max(candle2.open, candle2.close)

\* Morning star: bearish candle, small-bodied candle, bullish candle closing
\* above the middle of the first, with at least one of the gaps.
MorningStarCriteria(candle1, candle2, candle3) ==
    /\ candle1.close < candle1.open
    /\ candle3.close > candle3.open
    /\ 2 * BodyLength(candle2) < BodyLength(candle1)
    /\ 2 * candle3.close > candle1.open + candle1.close
    /\ GapDown(candle1, candle2) \/ GapUp(candle2, candle3)

\* 0.6 + gap_strength + body_ratio * 0.2
MorningStarConfidence(candle1, candle2, candle3) ==
    LET gap_strength ==
            IF GapDown(candle1, candle2) /\ GapUp(candle2, candle3)
            THEN Rat(10, 100) ELSE Rat(5, 100)
        body_ratio ==
            Minus(Rat(1, 1),
                  Rat(BodyLength(candle2),
                      Max(BodyLength(candle1), BodyLength(candle3))))
    IN Cap(Plus(Plus(Rat(6, 10), gap_strength), Times(body_ratio, Rat(2, 10))))

detect_morning_star_pattern(candles) ==
    LET hits == SelectSeq(RowsFrom(candles, 2), LAMBDA i :
                    MorningStarCriteria(Row(candles, i - 2), Row(candles, i - 1),
                                        Row(candles, i)))
    IN PatternResult("Morning Star",
          [j \in DOMAIN hits |->
              CandlestickPattern("Morning Star", "bullish",
                  MorningStarConfidence(Row(candles, hits[j] - 2),
                      Row(candles, hits[j] - 1), Row(candles, hits[j])),
                  hits[j])])

\* patterns["hammer"] = self._detect_hammer_pattern(df)
DetectHammer ==
    /\ pat_pc = "hammer"
    /\ patterns' = DictSet(patterns, "hammer", detect_hammer_pattern(df))
    /\ pat_pc' = "doji"
    /\ UNCHANGED nonPatternVars

\* patterns["doji"] = self._detect_doji_pattern(df)
DetectDoji ==
    /\ pat_pc = "doji"
    /\ patterns' = DictSet(patterns, "doji", detect_doji_pattern(df))
    /\ pat_pc' = "marubozu"
    /\ UNCHANGED nonPatternVars

\* patterns["marubozu"] = self._detect_marubozu_pattern(df)
DetectMarubozu ==
    /\ pat_pc = "marubozu"
    /\ patterns' = DictSet(patterns, "marubozu", detect_marubozu_pattern(df))
    /\ pat_pc' = "engulfing"
    /\ UNCHANGED nonPatternVars

\* patterns["engulfing"] = self._detect_engulfing_pattern(df)
DetectEngulfing ==
    /\ pat_pc = "engulfing"
    /\ patterns' = DictSet(patterns, "engulfing", detect_engulfing_pattern(df))
    /\ pat_pc' = "harami"
    /\ UNCHANGED nonPatternVars

\* patterns["harami"] = self._detect_harami_pattern(df)
DetectHarami ==
    /\ pat_pc = "harami"
    /\ patterns' = DictSet(patterns, "harami", detect_harami_pattern(df))
    /\ pat_pc' = "morning_star"
    /\ UNCHANGED nonPatternVars

\* patterns["morning_star"] = self._detect_morning_star_pattern(df)
DetectMorningStar ==
    /\ pat_pc = "morning_star"
    /\ patterns' = DictSet(patterns, "morning_star", detect_morning_star_pattern(df))
    /\ pat_pc' = "done"
    /\ UNCHANGED nonPatternVars

(***************************************************************************)
(* Inputs of the detectors: series of up to MaxCandles candles drawn from  *)
(* a set that holds, around PatternBase, a candle of every shape the       *)
(* detectors tell apart, and a flat series of FlatCandles candles.         *)
(***************************************************************************)
MaxCandles == 3
FlatCandles == 60
PatternBase == 100

\* A candle given by its distances from PatternBase.
Candle(open, high, low, close) ==
    [open |-> PatternBase + open, high |-> PatternBase + high,
     low |-> PatternBase + low, close |-> PatternBase + close, volume |-> 1]

\* The candle of the flat series: open = high = low = close.
Flat == Candle(0, 0, 0, 0)

Candles ==
    {Flat,
     Candle(0, 2, -2, 0),       \* no body, shadows on either side
     Candle(11, 12, -2, -1),    \* long bearish body
     Candle(1, 2, -1, 0),       \* short bearish body
     Candle(-2, 13, -3, 12),    \* long bullish body, engulfs the four above
     Candle(-2, 12, -2, 12),    \* bullish marubozu, as high and low as the long bearish
     Candle(14, 14, -4, -4),    \* bearish marubozu, engulfs the two bullish
     Candle(4, 7, 3, 6),        \* short body inside the long bodies
     Candle(8, 10, 0, 10),      \* hammer without upper shadow
     Candle(26, 40, 0, 37),     \* hammer with a lower shadow of 65% of the range
     Candle(-4, -3, -6, -5)}    \* short body gapping below the long bearish body

StartPatterns(candles) ==
    /\ df = candles
    /\ patterns = EmptyDict
    /\ pat_pc = "hammer"

InitPatterns ==
    /\ IdleAnalyze
    /\ IdleSR
    /\ IdleSummary
    /\ IdleIndicators
    /\ IdleEndpoints
    /\ IdleStages
    /\ \/ \E candles \in SeqsUpTo(Candles, MaxCandles) : StartPatterns(candles)
       \/ StartPatterns([t \in 1..FlatCandles |-> Flat])

NextPatterns ==
    \/ DetectHammer
    \/ DetectDoji
    \/ DetectMarubozu
    \/ DetectEngulfing
    \/ DetectHarami
    \/ DetectMorningStar

SpecPatterns == InitPatterns /\ [][NextPatterns]_vars

(***************************************************************************)
(* The moving-average indicators of _analyze_timeframe: _calculate_ma,     *)
(* _calculate_ema and _calculate_vwap. A series value is an exact          *)
(* quotient; NaN, the value of a row inside the warm-up window and of 0/0, *)
(* is the quotient 0/0.                                                    *)
(***************************************************************************)
NaN == Rat(0, 0)

\* pd.isna(x)
isna(x) == x.num = 0 /\ x.den = 0

RECURSIVE GCD(_, _)
GCD(a, b) == IF b = 0 THEN a ELSE GCD(b, a % b)

\* The same quotient in lowest terms.
Reduced(x) ==
    LET g == GCD(x.num, x.den)
    IN IF g = 0 THEN x ELSE Rat(x.num \div g, x.den \div g)

\* df[name]
Column(candles, name) == [t \in DOMAIN candles |-> candles[t][name]]

\* series[first] + ... + series[last]
RECURSIVE RollingSum(_, _, _)
RollingSum(series, first, last) ==
    IF first > last THEN 0
    ELSE series[last] + RollingSum(series, first, last - 1)

\* ta.trend.sma_indicator(close, window): close.rolling(window,
\* min_periods = window).mean().
sma_indicator_MinPeriodsOne(close, window) ==
    [t \in DOMAIN close |->
        Reduced(Rat(RollingSum(close, Max(1, t - window + 1), t),
                    Min(t, window)))]
sma_indicator(close, window) ==
    [t \in DOMAIN close |->
        IF t < window THEN NaN
        ELSE Reduced(Rat(RollingSum(close, t - window + 1, t), window))]

\* close.ewm(span = window, adjust = False).mean() at row t:
\* y[1] = close[1], y[t] = (1 - a) * y[t-1] + a * close[t], a = 2 / (window + 1).
RECURSIVE Ewm(_, _, _)
Ewm(close, window, t) ==
    IF t = 1 THEN Rat(close[1], 1)
    ELSE LET y == Ewm(close, window, t - 1)
         IN Reduced(Rat((window - 1) * y.num + 2 * close[t] * y.den,
                        (window + 1) * y.den))

\* ta.trend.ema_indicator(close, window): the ewm mean with
\* min_periods = window.
ema_indicator(close, window) ==
    [t \in DOMAIN close |-> IF t < window THEN NaN ELSE Ewm(close, window, t)]

\* The window ta.volume.volume_weighted_average_price is called with.
VwapWindow == 14

\* ta.volume.volume_weighted_average_price(high, low, close, volume): the
\* rolling sum of typical price * volume over the rolling sum of volume, the
\* typical price being (high + low + close) / 3. A window without volume
\* gives 0/0.
volume_weighted_average_price(high, low, close, volume) ==
    LET price_volume == [t \in DOMAIN close |->
                            (high[t] + low[t] + close[t]) * volume[t]]
    IN [t \in DOMAIN close |->
           IF t < VwapWindow THEN NaN
           ELSE Reduced(Rat(RollingSum(price_volume, t - VwapWindow + 1, t),
                            3 * RollingSum(volume, t - VwapWindow + 1, t)))]

\* values.fillna(0)
fillna(values) ==
    [t \in DOMAIN values |-> IF isna(values[t]) THEN Rat(0, 1) ELSE values[t]]

\* float(values.iloc[-1]) if not pd.isna(values.iloc[-1]) else None
CurrentValue(values) ==
    IF ~isna(values[Len(values)]) THEN values[Len(values)] ELSE None

\* float(df['close'].iloc[-1])
CurrentPrice(candles) == Rat(candles[Len(candles)].close, 1)

\* "BULLISH" if current_price > current_value else "BEARISH" if current_value
\* else "NEUTRAL". The comparison is evaluated first, and a float compared
\* with None raises TypeError.
MovingAverageSignal(price, value) ==
    IF value = None THEN "TypeError"
    ELSE IF Less(value, price) THEN "BULLISH"
    ELSE IF value.num # 0 THEN "BEARISH"
    ELSE "NEUTRAL"

\* An exception leaving the function `where`.
Raised(error, where) == [raised |-> error, in |-> where]

MAResult(ma_type, values, value, signal, window) ==
    [name |-> <<ma_type, window>>, values |-> fillna(values),
     current_value |-> value, signal |-> signal, period |-> window,
     ma_type |-> ma_type]

VWAPResult(values, value, signal) ==
    [name |-> "VWAP", values |-> fillna(values), current_value |-> value,
     signal |-> signal]

calculate_ma(candles, window) ==
    LET ma_values == sma_indicator(Column(candles, "close"), window)
        signal == MovingAverageSignal(CurrentPrice(candles),
                                      CurrentValue(ma_values))
    IN IF signal = "TypeError" THEN Raised("TypeError", "_calculate_ma")
       ELSE MAResult("SMA", ma_values, CurrentValue(ma_values), signal, window)

calculate_ema(candles, window) ==
    LET ema_values == ema_indicator(Column(candles, "close"), window)
        signal == MovingAverageSignal(CurrentPrice(candles),
                                      CurrentValue(ema_values))
    IN IF signal = "TypeError" THEN Raised("TypeError", "_calculate_ema")
       ELSE MAResult("EMA", ema_values, CurrentValue(ema_values), signal, window)

calculate_vwap(candles) ==
    LET vwap_values == volume_weighted_average_price(
                           Column(candles, "high"), Column(candles, "low"),
                           Column(candles, "close"), Column(candles, "volume"))
        signal == MovingAverageSignal(CurrentPrice(candles),
                                      CurrentValue(vwap_values))
    IN IF signal = "TypeError" THEN Raised("TypeError", "_calculate_vwap")
       ELSE VWAPResult(vwap_values, CurrentValue(vwap_values), signal)

\* series.ewm(alpha = 1 / window, adjust = False).mean() at row t:
\* y[1] = series[1], y[t] = ((window - 1) * y[t-1] + series[t]) / window.
RECURSIVE Wilder(_, _, _)
Wilder(series, window, t) ==
    IF t = 1 THEN Rat(series[1], 1)
    ELSE LET y == Wilder(series, window, t - 1)
         IN Reduced(Rat((window - 1) * y.num + series[t] * y.den,
                        window * y.den))

\* close.diff(1) where it is positive, else 0; the first row has no diff.
UpDirection(close) ==
    [t \in DOMAIN close |->
        IF t > 1 /\ close[t] > close[t - 1] THEN close[t] - close[t - 1] ELSE 0]

\* -close.diff(1) where the diff is negative, else 0.
DownDirection(close) ==
    [t \in DOMAIN close |->
        IF t > 1 /\ close[t] < close[t - 1] THEN close[t - 1] - close[t] ELSE 0]

\* ta.momentum.rsi(close, window): with emaup and emadn the smoothed up and
\* down moves (min_periods = window), 100 where emadn is 0, else
\* 100 - 100 / (1 + emaup / emadn), which is 100 * emaup / (emaup + emadn).
rsi(close, window) ==
    [t \in DOMAIN close |->
        IF t < window THEN NaN
        ELSE LET emaup == Wilder(UpDirection(close), window, t)
                 emadn == Wilder(DownDirection(close), window, t)
             IN IF emadn.num = 0 THEN Rat(100, 1)
                ELSE Reduced(Rat(100 * emaup.num * emadn.den,
                                 emaup.num * emadn.den + emadn.num * emaup.den))]

\* signal = "NEUTRAL"; if current_value: OVERBOUGHT above 70, OVERSOLD below
\* 30, BULLISH above 50, else BEARISH. None and 0.0 are both falsy.
RSISignal(value) ==
    IF value = None \/ value.num = 0 THEN "NEUTRAL"
    ELSE IF Less(Rat(70, 1), value) THEN "OVERBOUGHT"
    ELSE IF Less(value, Rat(30, 1)) THEN "OVERSOLD"
    ELSE IF Less(Rat(50, 1), value) THEN "BULLISH"
    ELSE "BEARISH"

RSIResult(values, value, signal, window) ==
    [name |-> "RSI", values |-> fillna(values), current_value |-> value,
     signal |-> signal, period |-> window]

calculate_rsi(candles, window) ==
    LET rsi_values == rsi(Column(candles, "close"), window)
    IN RSIResult(rsi_values, CurrentValue(rsi_values),
                 RSISignal(CurrentValue(rsi_values)), window)

\* ta.trend.macd(close, window_fast, window_slow): the fast EMA minus the
\* slow EMA; NaN while either is.
macd(close, fast, slow) ==
    [t \in DOMAIN close |->
        Reduced(Minus(ema_indicator(close, fast)[t],
                      ema_indicator(close, slow)[t]))]

\* The ewm mean (span = window, adjust = False) at row t of a series whose
\* first defined row is `first`: the leading NaN rows are skipped.
RECURSIVE EwmFrom(_, _, _, _)
EwmFrom(series, window, first, t) ==
    IF t = first THEN series[first]
    ELSE LET y == EwmFrom(series, window, first, t - 1)
         IN Reduced(Rat((window - 1) * y.num * series[t].den
                            + 2 * series[t].num * y.den,
                        (window + 1) * y.den * series[t].den))

\* ta.trend.macd_signal(close, window_fast, window_slow, window_sign): the EMA
\* of the MACD line with min_periods = window_sign, counted in defined rows.
macd_signal(close, fast, slow, sign) ==
    [t \in DOMAIN close |->
        IF t < slow + sign - 1 THEN NaN
        ELSE EwmFrom(macd(close, fast, slow), sign, slow, t)]

\* ta.trend.macd_diff(close, ...): the MACD line minus the signal line; NaN
\* while either is.
macd_diff(close, fast, slow, sign) ==
    [t \in DOMAIN close |->
        Reduced(Minus(macd(close, fast, slow)[t],
                      macd_signal(close, fast, slow, sign)[t]))]

\* signal = "NEUTRAL"; if current_macd and current_signal: BULLISH when
\* current_macd > current_signal, else BEARISH.
MACDSignal(current_macd, current_signal) ==
    IF current_macd = None \/ current_signal = None THEN "NEUTRAL"
    ELSE IF current_macd.num = 0 \/ current_signal.num = 0 THEN "NEUTRAL"
    ELSE IF Less(current_signal, current_macd) THEN "BULLISH"
    ELSE "BEARISH"

MACDResult(macd_line, signal_line, histogram) ==
    [name |-> "MACD", macd_line |-> fillna(macd_line),
     signal_line |-> fillna(signal_line), histogram |-> fillna(histogram),
     current_macd |-> CurrentValue(macd_line),
     current_signal |-> CurrentValue(signal_line),
     current_histogram |-> CurrentValue(histogram),
     signal |-> MACDSignal(CurrentValue(macd_line), CurrentValue(signal_line))]

calculate_macd(candles, fast, slow, signal_period) ==
    MACDResult(macd(Column(candles, "close"), fast, slow),
               macd_signal(Column(candles, "close"), fast, slow, signal_period),
               macd_diff(Column(candles, "close"), fast, slow, signal_period))

IsRaised(outcome) == "raised" \in DOMAIN outcome

\* _analyze_timeframe calls the indicators one after the other, outside any
\* try: a result is kept and the next indicator is calculated, an exception
\* leaves _analyze_timeframe.
CalculateMA ==
    /\ ind_pc = "ma"
    /\ LET outcome == calculate_ma(df, period)
       IN IF IsRaised(outcome)
          THEN /\ ind_raised' = outcome
               /\ ind_pc' = "raised"
               /\ UNCHANGED ind_results
          ELSE /\ ind_results' = DictSet(ind_results, "_calculate_ma", outcome)
               /\ ind_pc' = "ema"
               /\ UNCHANGED ind_raised
    /\ UNCHANGED <<period, macd_windows, nonIndicatorVars>>

CalculateEMA ==
    /\ ind_pc = "ema"
    /\ LET outcome == calculate_ema(df, period)
       IN IF IsRaised(outcome)
          THEN /\ ind_raised' = outcome
               /\ ind_pc' = "raised"
               /\ UNCHANGED ind_results
          ELSE /\ ind_results' = DictSet(ind_results, "_calculate_ema", outcome)
               /\ ind_pc' = "rsi"
               /\ UNCHANGED ind_raised
    /\ UNCHANGED <<period, macd_windows, nonIndicatorVars>>

CalculateRSI ==
    /\ ind_pc = "rsi"
    /\ ind_results' = DictSet(ind_results, "_calculate_rsi",
                              calculate_rsi(df, period))
    /\ ind_pc' = "macd"
    /\ UNCHANGED <<period, macd_windows, ind_raised, nonIndicatorVars>>

CalculateMACD ==
    /\ ind_pc = "macd"
    /\ ind_results' = DictSet(ind_results, "_calculate_macd",
                              calculate_macd(df, macd_windows[1], macd_windows[2],
                                             macd_windows[3]))
    /\ ind_pc' = "vwap"
    /\ UNCHANGED <<period, macd_windows, ind_raised, nonIndicatorVars>>

CalculateVWAP ==
    /\ ind_pc = "vwap"
    /\ LET outcome == calculate_vwap(df)
       IN IF IsRaised(outcome)
          THEN /\ ind_raised' = outcome
               /\ ind_pc' = "raised"
               /\ UNCHANGED ind_results
          ELSE /\ ind_results' = DictSet(ind_results, "_calculate_vwap", outcome)
               /\ ind_pc' = "done"
               /\ UNCHANGED ind_raised
    /\ UNCHANGED <<period, macd_windows, nonIndicatorVars>>

(***************************************************************************)
(* Inputs of the indicators: every series of up to MaxBars bars, and the   *)
(* series of VwapWindow and VwapWindow + 1 bars that repeat one bar and    *)
(* end on another, each with a period up to MaxPeriod and with MACD        *)
(* periods short enough for both lines to be defined. The calculations     *)
(* start at any of the indicators on a short series and at the VWAP, whose *)
(* window they fill, on a long one. A bar trades around PatternBase, with  *)
(* or without volume.                                                      *)
(***************************************************************************)
MaxBars == 3
MaxPeriod == 3

Bar(close, volume) ==
    [open |-> close, high |-> close + 1, low |-> close - 1, close |-> close,
     volume |-> volume]

Bars == {Bar(PatternBase - 1, 1), Bar(PatternBase + 1, 1), Bar(PatternBase, 0)}

ShortBarSeries == SeqsUpTo(Bars, MaxBars) \ {<<>>}

\* <<fast, slow, signal_period>>
MacdWindows == {<<1, 2, 2>>, <<2, 3, 2>>}

LongBarSeries ==
    {[t \in 1..n |-> IF t = n THEN last ELSE first] :
        n \in {VwapWindow, VwapWindow + 1}, first \in Bars, last \in Bars}

StartIndicators(candles, window, windows, first) ==
    /\ df = candles
    /\ period = window
    /\ macd_windows = windows
    /\ ind_results = EmptyDict
    /\ ind_raised = None
    /\ ind_pc = first

InitIndicators ==
    /\ IdleAnalyze
    /\ IdleSR
    /\ IdleSummary
    /\ IdlePatterns
    /\ IdleEndpoints
    /\ IdleStages
    /\ \E window \in 2..MaxPeriod, windows \in MacdWindows :
          \/ \E candles \in ShortBarSeries,
                first \in {"ma", "ema", "rsi", "macd", "vwap"} :
                  StartIndicators(candles, window, windows, first)
          \/ \E candles \in LongBarSeries :
                  StartIndicators(candles, window, windows, "vwap")

NextIndicators ==
    \/ CalculateMA
    \/ CalculateEMA
    \/ CalculateRSI
    \/ CalculateMACD
    \/ CalculateVWAP

SpecIndicators == InitIndicators /\ [][NextIndicators]_vars


(***************************************************************************)
(* routers/technical_analysis.py: POST /technical-analysis/{stock_name}    *)
(* and GET /technical-analysis/{stock_name}/quick. What analyze_stock does *)
(* with a request is the machine Spec; an endpoint sees it return a        *)
(* response, raise ValueError, or raise another exception.                 *)
(***************************************************************************)
valid_timeframes ==
    {"1minute", "3minute", "5minute", "10minute", "15minute",
     "30minute", "1hour", "1day", "minute", "day"}

\* [tf for tf in timeframes if tf not in valid_timeframes]
invalid_timeframes(timeframes_given) ==
    SelectSeq(timeframes_given, LAMBDA tf : tf \notin valid_timeframes)

\* An exception of class type_name; HTTPException carries its status code.
Exception(type_name, status_code) ==
    [type |-> type_name, status_code |-> status_code]

\* raise HTTPException(status_code, detail = str(e)) leaves the endpoint.
HTTPException(status_code, cause) ==
    [status_code |-> status_code, detail |-> cause, body |-> None]

\* return response
Returns(body) == [status_code |-> 200, detail |-> None, body |-> body]

\* except ValueError as ve: 400; except Exception as e: 500. HTTPException is
\* an Exception and not a ValueError.
ExceptClauses(e) ==
    IF e.type = "ValueError" THEN HTTPException(400, e)
    ELSE HTTPException(500, e)

\* The parameters of TechnicalAnalysisService.analyze_stock besides self.
AnalyzeStockParameters == {"request"}

\* The TechnicalAnalysisResponse analyze_stock builds: no gemini_opinion is
\* passed, so the field keeps its default None.
TechnicalAnalysisResponse(request) ==
    [stock_name |-> request.stock_name,
     timeframes |-> request.timeframes,
     gemini_opinion |-> None]

\* service.analyze_stock(request, **keywords): a keyword that is no parameter
\* raises TypeError before the body runs.
BodyRuns(keywords) == keywords \subseteq AnalyzeStockParameters

\* What the call gives the endpoint: a response or an exception.
AnalyzeStockCall(request, keywords) ==
    IF ~BodyRuns(keywords) THEN Exception("TypeError", 0)
    ELSE IF service_outcome = "response" THEN TechnicalAnalysisResponse(request)
    ELSE Exception(service_outcome, 0)

IsException(outcome) == "type" \in DOMAIN outcome

\* The try block from the call on: return the response, or answer the
\* exception through the except clauses.
CallAndAnswer(request, keywords) ==
    /\ service_calls' = IF BodyRuns(keywords)
                        THEN Append(service_calls, request)
                        ELSE service_calls
    /\ http_response' =
          IF IsException(AnalyzeStockCall(request, keywords))
          THEN ExceptClauses(AnalyzeStockCall(request, keywords))
          ELSE Returns(AnalyzeStockCall(request, keywords))

\* analyze_stock_technical, a timeframe is invalid: HTTPException(400) is
\* raised inside the try block and goes through the except clauses.
RejectTimeframes ==
    /\ rt_pc = "post"
    /\ invalid_timeframes(http_request.timeframes) # <<>>
    /\ http_response' = ExceptClauses(Exception("HTTPException", 400))
    /\ rt_pc' = "answered"
    /\ UNCHANGED <<http_request, service_outcome, service_calls>>
    /\ UNCHANGED nonRouterVars

\* analyze_stock_technical, every timeframe is valid.
AnalyzeStockTechnical ==
    /\ rt_pc = "post"
    /\ invalid_timeframes(http_request.timeframes) = <<>>
    /\ CallAndAnswer(http_request, {})
    /\ rt_pc' = "answered"
    /\ UNCHANGED <<http_request, service_outcome>>
    /\ UNCHANGED nonRouterVars

\* quick_technical_analysis: analyze_stock(request,
\* include_gemini_opinion=True).
QuickTechnicalAnalysis ==
    /\ rt_pc = "quick"
    /\ CallAndAnswer(http_request, {"include_gemini_opinion"})
    /\ rt_pc' = "answered"
    /\ UNCHANGED <<http_request, service_outcome>>
    /\ UNCHANGED nonRouterVars

(***************************************************************************)
(* Requests: up to MaxRequestTimeframes timeframes for POST and one for    *)
(* the quick endpoint, valid or not, with each outcome of the service.     *)
(***************************************************************************)
MaxRequestTimeframes == 2

RequestTimeframes == {"1day", "1hour", "day", "2hour", "1week"}

ServiceOutcomes == {"response", "ValueError", "Exception"}

StartRequest(route, timeframes_given, outcome) ==
    /\ http_request = [route |-> route, stock_name |-> "stock",
                       timeframes |-> timeframes_given]
    /\ service_outcome = outcome
    /\ service_calls = <<>>
    /\ http_response = None
    /\ rt_pc = route

InitRouter ==
    /\ IdleStages
    /\ IdleAnalyze
    /\ IdleSR
    /\ IdleSummary
    /\ IdleTimeframe
    /\ IdleAuth
    /\ \E outcome \in ServiceOutcomes :
          \/ \E given \in SeqsUpTo(RequestTimeframes, MaxRequestTimeframes) \ {<<>>} :
                StartRequest("post", given, outcome)
          \/ \E tf \in RequestTimeframes : StartRequest("quick", <<tf>>, outcome)

NextRouter ==
    \/ RejectTimeframes
    \/ AnalyzeStockTechnical
    \/ QuickTechnicalAnalysis

SpecRouter == InitRouter /\ [][NextRouter]_vars

(***************************************************************************)
(* services/auth_service.py: AuthService. The broker accepts one request   *)
(* token, for which it opens a session, and answers profile() for the      *)
(* access tokens that are valid.                                           *)
(***************************************************************************)
\* A token string, kept apart from None.
Token(text) == [token |-> text]

RequestTokens == {Token("request_good"), Token("request_bad")}
AccessTokens == {Token("access_valid"), Token("access_expired")}

\* The access token of the session the broker opens for the good request token.
SessionToken == Token("access_session")

\* self.kite.generate_session(request_token, api_secret) returns; it raises
\* for any other token.
SessionGranted(request_token) == request_token = Token("request_good")

\* self.kite.profile() returns for a client holding a valid token; it raises
\* for any other.
ProfileAnswers(client) == client.access_token \in {SessionToken, Token("access_valid")}

\* KiteConnect(api_key=...): a client with no access token yet.
KiteConnect == [access_token |-> None]

\* self.kite.set_access_token(token)
SetAccessToken(client, token) == [client EXCEPT !.access_token = token]

\* AuthResponse(status=...), of generate_session.
AuthResponse(status) == [status |-> status]

\* return True / return False, of initialize_with_access_token.
ReturnValue(flag) == [returned |-> flag]

\* One entry of the log of calls: what was called with what, what it
\* returned, and self.access_token before and after it.
AuthCall(call, argument, result) ==
    [call |-> call, argument |-> argument, result |-> result,
     before |-> access_token, after |-> access_token']

\* generate_session without a client: ValueError, answered as "failed".
GenerateSessionWithoutClient(request_token) ==
    /\ kite = None
    /\ UNCHANGED <<kite, access_token>>
    /\ auth_log' = Append(auth_log,
                          AuthCall("generate_session", request_token, AuthResponse("failed")))

\* generate_session, the broker refuses the request token: "failed".
GenerateSessionRefused(request_token) ==
    /\ kite # None
    /\ ~SessionGranted(request_token)
    /\ UNCHANGED <<kite, access_token>>
    /\ auth_log' = Append(auth_log,
                          AuthCall("generate_session", request_token, AuthResponse("failed")))

\* generate_session, the broker opens a session: the token is stored and set
\* on the client, "success".
GenerateSessionGranted(request_token) ==
    /\ kite # None
    /\ SessionGranted(request_token)
    /\ access_token' = SessionToken
    /\ kite' = SetAccessToken(kite, SessionToken)
    /\ auth_log' = Append(auth_log,
                          AuthCall("generate_session", request_token, AuthResponse("success")))

\* initialize_with_access_token: the client is created if there is none, the
\* token is set on it and stored, and then profile() decides what is
\* returned.
initialize_with_access_token(token) ==
    /\ kite' = SetAccessToken(IF kite = None THEN KiteConnect ELSE kite, token)
    /\ access_token' = token
    /\ auth_log' = Append(auth_log,
          AuthCall("initialize_with_access_token", token,
                   ReturnValue(ProfileAnswers(kite'))))

\* return self.kite if self.access_token else None
get_kite_instance ==
    IF access_token # None /\ access_token # Token("") THEN kite ELSE None

MaxAuthCalls == 4

GenerateSession ==
    /\ Len(auth_log) < MaxAuthCalls
    /\ \E request_token \in RequestTokens :
          \/ GenerateSessionWithoutClient(request_token)
          \/ GenerateSessionRefused(request_token)
          \/ GenerateSessionGranted(request_token)
    /\ UNCHANGED nonAuthVars

InitializeWithAccessToken ==
    /\ Len(auth_log) < MaxAuthCalls
    /\ \E token \in AccessTokens : initialize_with_access_token(token)
    /\ UNCHANGED nonAuthVars

\* AuthService(): a client is created when the API key is configured.
InitAuth ==
    /\ IdleStages
    /\ IdleAnalyze
    /\ IdleSR
    /\ IdleSummary
    /\ IdleTimeframe
    /\ IdleRouter
    /\ kite \in {None, KiteConnect}
    /\ access_token = None
    /\ auth_log = <<>>

NextAuth ==
    \/ GenerateSession
    \/ InitializeWithAccessToken

SpecAuth == InitAuth /\ [][NextAuth]_vars

(***************************************************************************)
(* The detection stages of _calculate_support_resistance: pivot levels,    *)
(* horizontal levels and volume-weighted levels of df, merged in that      *)
(* order. Prices, strengths and distances are exact quotients; a stage     *)
(* level is a record [price, level_type, strength, touches,                *)
(* distance_from_current].                                                 *)
(***************************************************************************)
StageLevel(price, type, strength, touches, distance) ==
    [price |-> price, level_type |-> type, strength |-> strength,
     touches |-> touches, distance_from_current |-> distance]

\* min(10.0, x)
AtMostTen(x) == IF Less(Rat(10, 1), x) THEN Rat(10, 1) ELSE x

\* max(1.0, x)
AtLeastOne(x) == IF Less(x, Rat(1, 1)) THEN Rat(1, 1) ELSE x

\* df['close'].iloc[-1]
LastClose(candles) == candles[Len(candles)].close

\* The window of _detect_pivot_levels.
PivotWindow == 5

\* range(window, len(df) - window), as rows counted from 1.
PivotRows(candles) ==
    [k \in 1..Max(0, Len(candles) - 2 * PivotWindow) |-> PivotWindow + k]

\* The rows of left_highs and right_highs around row i.
Surrounding(i) == ((i - PivotWindow)..(i - 1)) \cup ((i + 1)..(i + PivotWindow))

\* current_high > left_highs.max() and current_high > right_highs.max()
IsSwingHigh(highs, i) == \A j \in Surrounding(i) : highs[i] > highs[j]

\* current_low < left_lows.min() and current_low < right_lows.min()
IsSwingLow(lows, i) == \A j \in Surrounding(i) : lows[i] < lows[j]

\* (left.mean() + right.mean()) / 2
avg_surrounding(series, i) ==
    Rat(RollingSum(series, i - PivotWindow, i - 1)
            + RollingSum(series, i + 1, i + PivotWindow),
        2 * PivotWindow)

\* strength = min(10.0, max(1.0, strength_factor * 2)), strength_factor being
\* the distance of the swing from avg_surrounding in percent of it.
PivotStrength(series, i) ==
    LET avg == avg_surrounding(series, i)
        away == Abs(series[i] * avg.den - avg.num)
    IN AtMostTen(AtLeastOne(Reduced(Rat(away * 100 * 2, avg.num))))

\* _detect_pivot_levels: the swing highs in row order, then the swing lows.
detect_pivot_levels(candles) ==
    LET highs == Column(candles, "high")
        lows == Column(candles, "low")
        current == LastClose(candles)
        swing_highs == SelectSeq(PivotRows(candles), LAMBDA i : IsSwingHigh(highs, i))
        swing_lows == SelectSeq(PivotRows(candles), LAMBDA i : IsSwingLow(lows, i))
    IN [k \in 1..Len(swing_highs) |->
           StageLevel(Rat(highs[swing_highs[k]], 1), "resistance",
                      PivotStrength(highs, swing_highs[k]), 1,
                      Reduced(PivotDistance(highs[swing_highs[k]], "resistance",
                                            current)))]
       \o
       [k \in 1..Len(swing_lows) |->
           StageLevel(Rat(lows[swing_lows[k]], 1), "support",
                      PivotStrength(lows, swing_lows[k]), 1,
                      Reduced(PivotDistance(lows[swing_lows[k]], "support",
                                            current)))]

\* touch_threshold of _detect_horizontal_levels, in percent.
TouchThreshold == Rat(1, 2)

\* sorted(set(highs + lows + closes))
unique_prices(candles) ==
    LET all_prices == Range(Column(candles, "high"))
                          \cup Range(Column(candles, "low"))
                          \cup Range(Column(candles, "close"))
    IN [k \in 1..Cardinality(all_prices) |->
           CHOOSE p \in all_prices :
               Cardinality({q \in all_prices : q < p}) = k - 1]

\* sum(group)
GroupSum(group) == RollingSum(group, 1, Len(group))

\* abs(price - group_avg) / group_avg * 100 <= touch_threshold, group_avg
\* being sum(current_group) / len(current_group).
WithinTouch_OfFirst(price, current_group) ==
    Abs(price - current_group[1]) * 100 * TouchThreshold.den
        <= TouchThreshold.num * current_group[1]
WithinTouch(price, current_group) ==
    Abs(price * Len(current_group) - GroupSum(current_group))
            * 100 * TouchThreshold.den
        <= TouchThreshold.num * GroupSum(current_group)

\* if len(current_group) >= 2: price_groups.append(current_group)
SaveGroup(price_groups, current_group) ==
    IF Len(current_group) >= 2 THEN Append(price_groups, current_group)
    ELSE price_groups

\* The grouping loop from the i-th unique price on, and the last group.
RECURSIVE GroupPricesFrom(_, _, _, _)
GroupPricesFrom(prices, i, current_group, price_groups) ==
    IF i > Len(prices) THEN SaveGroup(price_groups, current_group)
    ELSE IF WithinTouch(prices[i], current_group)
    THEN GroupPricesFrom(prices, i + 1, Append(current_group, prices[i]),
                         price_groups)
    ELSE GroupPricesFrom(prices, i + 1, <<prices[i]>>,
                         SaveGroup(price_groups, current_group))

\* The level of one group: its mean, typed by the current price, with
\* strength = min(10.0, touches * 2.0).
HorizontalLevel(group, current) ==
    LET level_price == Reduced(Rat(GroupSum(group), Len(group)))
    IN StageLevel(level_price,
                  IF Less(level_price, Rat(current, 1)) THEN "support"
                  ELSE "resistance",
                  AtMostTen(Rat(Len(group) * 2, 1)),
                  Len(group),
                  Reduced(Rat(Abs(GroupSum(group) - current * Len(group)) * 100,
                              Len(group) * current)))

\* _detect_horizontal_levels
detect_horizontal_levels(candles) ==
    LET prices == unique_prices(candles)
        price_groups == GroupPricesFrom(prices, 2, <<prices[1]>>, <<>>)
    IN [k \in 1..Len(price_groups) |->
           HorizontalLevel(price_groups[k], LastClose(candles))]

\* The number of price bins of the volume profile.
NumBins == 50

\* df['low'].min(), df['high'].max()
price_min(candles) == SetMin(Range(Column(candles, "low")))
price_max(candles) == SetMax(Range(Column(candles, "high")))

\* price_range = price_max - price_min; bin_size is price_range / 50.
price_range(candles) == price_max(candles) - price_min(candles)

\* bin_size = price_range / 50 is zero, so (price - price_min) / bin_size is
\* 0.0 / 0.0 and int() of it raises.
ZeroBinSize(candles) == price_range(candles) = 0

\* int((price - price_min) / bin_size)
BinOf(price, lowest, range) == ((price - lowest) * NumBins) \div range

\* The keys of price_volume_map one candle adds volume to: the bin of its
\* close for a point candle, else the bins from that of its low to that of
\* its high, below 50, whose bin_price lies within the candle.
CandleBins(row, lowest, range) ==
    IF row.high - row.low = 0
    THEN {BinOf(row.close, lowest, range)}
    ELSE {bin_num \in Max(0, BinOf(row.low, lowest, range))
                        ..(Min(NumBins, BinOf(row.high, lowest, range) + 1) - 1) :
             /\ row.low * NumBins <= lowest * NumBins + bin_num * range
             /\ lowest * NumBins + bin_num * range <= row.high * NumBins}

\* What the candle adds to each of them: row['volume'], or volume_per_price.
CandleVolume(row) ==
    IF row.high - row.low = 0 THEN Rat(row.volume, 1)
    ELSE Rat(row.volume, row.high - row.low)

\* The candles of df, each once, in some order.
RECURSIVE Listed(_)
Listed(S) ==
    IF S = {} THEN <<>>
    ELSE LET c == CHOOSE x \in S : TRUE IN <<c>> \o Listed(S \ {c})

\* The number of rows of df holding the candle.
RowsHolding(candles, candle) ==
    Cardinality({t \in DOMAIN candles : candles[t] = candle})

\* price_volume_map[bin_num] after the loop over the rows, 0 without any:
\* every row holding the i-th distinct candle, or a later one, adds that
\* candle's volume to the bin when the bin is among the candle's.
RECURSIVE VolumeInBin(_, _, _, _, _, _)
VolumeInBin(candles, distinct, i, bin_num, lowest, range) ==
    IF i > Len(distinct) THEN Rat(0, 1)
    ELSE LET rest == VolumeInBin(candles, distinct, i + 1, bin_num, lowest, range)
             added == CandleVolume(distinct[i])
         IN IF bin_num \in CandleBins(distinct[i], lowest, range)
            THEN Reduced(Plus(Rat(added.num * RowsHolding(candles, distinct[i]),
                                  added.den),
                              rest))
            ELSE rest

\* sorted(price_volume_map.keys())
sorted_bins(distinct, lowest, range) ==
    LET keys == UNION {CandleBins(distinct[i], lowest, range) : i \in DOMAIN distinct}
    IN [k \in 1..Cardinality(keys) |->
           CHOOSE b \in keys : Cardinality({c \in keys : c < b}) = k - 1]

\* The volumes of the bins first..last of sorted_bins, in that order.
RECURSIVE BinVolumes(_, _, _, _, _, _, _)
BinVolumes(candles, distinct, bins, lowest, range, first, last) ==
    IF first > last THEN <<>>
    ELSE IF first = last
    THEN <<VolumeInBin(candles, distinct, 1, bins[first], lowest, range)>>
    ELSE LET middle == (first + last) \div 2
         IN BinVolumes(candles, distinct, bins, lowest, range, first, middle)
                \o BinVolumes(candles, distinct, bins, lowest, range,
                              middle + 1, last)

\* sum(values[first..last]), taken by halves.
RECURSIVE TotalVolume(_, _, _)
TotalVolume(values, first, last) ==
    IF first = last THEN values[first]
    ELSE LET middle == (first + last) \div 2
         IN Reduced(Plus(TotalVolume(values, first, middle),
                         TotalVolume(values, middle + 1, last)))

\* The bins within check_range = 3 places of place i in sorted_bins.
CheckRange(i, n) == (Max(1, i - 3)..Min(n, i + 3)) \ {i}

\* abs(price - level_price) <= tolerance, tolerance being bin_size and
\* level_price being price_min + bin_num * bin_size.
TouchesBin(price, bin_num, lowest, range) ==
    Abs((price - lowest) * NumBins - bin_num * range) <= range

\* The level of a high-volume bin.
VolumeLevel(candles, bin_num, volume, avg_volume, lowest, range) ==
    LET current == LastClose(candles)
        level_price == Reduced(Rat(lowest * NumBins + bin_num * range, NumBins))
        touches == Cardinality({t \in DOMAIN candles :
                       \/ TouchesBin(candles[t].high, bin_num, lowest, range)
                       \/ TouchesBin(candles[t].low, bin_num, lowest, range)})
    IN StageLevel(level_price,
                  IF Less(level_price, Rat(current, 1)) THEN "support"
                  ELSE "resistance",
                  AtMostTen(Reduced(Rat(volume.num * avg_volume.den * 2,
                                        volume.den * avg_volume.num))),
                  Max(1, touches),
                  Reduced(Rat(Abs(level_price.num - current * level_price.den) * 100,
                              level_price.den * current)))

\* The levels of the places of `maxima` in sorted_bins, from the k-th on.
RECURSIVE VolumeLevelsFrom(_, _, _, _, _, _, _, _)
VolumeLevelsFrom(candles, bins, volumes, maxima, k, avg_volume, lowest, range) ==
    IF k > Len(maxima) THEN <<>>
    ELSE <<VolumeLevel(candles, bins[maxima[k]], volumes[maxima[k]], avg_volume,
                       lowest, range)>>
         \o VolumeLevelsFrom(candles, bins, volumes, maxima, k + 1, avg_volume,
                             lowest, range)

\* _detect_volume_weighted_levels, for a price range that is not zero: the
\* bins whose volume is more than 1.5 times the average and not less than
\* that of any bin within three places, in bin order.
detect_volume_weighted_levels(candles) ==
    LET lowest == price_min(candles)
        range == price_range(candles)
        distinct == Listed(Range(candles))
        bins == sorted_bins(distinct, lowest, range)
        volumes == BinVolumes(candles, distinct, bins, lowest, range, 1, Len(bins))
        total == TotalVolume(volumes, 1, Len(bins))
        avg_volume == Rat(total.num, total.den * Len(bins))
        volume_threshold == Times(avg_volume, Rat(3, 2))
        maxima == SelectSeq([i \in 1..Len(bins) |-> i], LAMBDA i :
                      /\ Less(volume_threshold, volumes[i])
                      /\ \A j \in CheckRange(i, Len(bins)) :
                             ~Less(volumes[i], volumes[j]))
    IN VolumeLevelsFrom(candles, bins, volumes, maxima, 1, avg_volume, lowest, range)

\* pivot_levels = self._detect_pivot_levels(df)
DetectPivotLevels ==
    /\ stage_pc = "pivot"
    /\ pivot_levels' = detect_pivot_levels(df)
    /\ stage_pc' = "horizontal"
    /\ UNCHANGED <<df, horizontal_levels, volume_levels, merged_levels,
                   stage_raised, nonStageVars>>

\* horizontal_levels = self._detect_horizontal_levels(df)
DetectHorizontalLevels ==
    /\ stage_pc = "horizontal"
    /\ horizontal_levels' = detect_horizontal_levels(df)
    /\ stage_pc' = "volume"
    /\ UNCHANGED <<df, pivot_levels, volume_levels, merged_levels,
                   stage_raised, nonStageVars>>

\* volume_levels = self._detect_volume_weighted_levels(df): it raises out of
\* _calculate_support_resistance when the bin size is zero.
DetectVolumeWeightedLevels ==
    /\ stage_pc = "volume"
    /\ IF ZeroBinSize(df)
       THEN /\ stage_raised' = [error |-> "ValueError",
                                message |-> "cannot convert float NaN to integer"]
            /\ stage_pc' = "raised"
            /\ UNCHANGED volume_levels
       ELSE /\ volume_levels' = detect_volume_weighted_levels(df)
            /\ stage_pc' = "merge"
            /\ UNCHANGED stage_raised
    /\ UNCHANGED <<df, pivot_levels, horizontal_levels, merged_levels,
                   nonStageVars>>

\* all_levels = pivot_levels + horizontal_levels + volume_levels
MergeLevels ==
    /\ stage_pc = "merge"
    /\ merged_levels' = pivot_levels \o horizontal_levels \o volume_levels
    /\ stage_pc' = "classify"
    /\ UNCHANGED <<df, pivot_levels, horizontal_levels, volume_levels,
                   stage_raised, nonStageVars>>

(***************************************************************************)
(* Inputs of the stages: series of MinCandles and MinCandles + 1 candles.  *)
(* All rows hold the point candle at StageBase but the rows 8, 12, ... up  *)
(* to MaxMarks of them, four rows apart so that each lies in the pivot     *)
(* window of the next, which hold any of the candles of StageCandles, and  *)
(* the last row, which holds one of LastCandles. The series of point       *)
(* candles only is the flat series.                                        *)
(* Highs and lows are multiples of 25 apart and closes lie on either side  *)
(* of the 0.5% test around the means of the prices below them.             *)
(***************************************************************************)
StageBase == 10000
MaxMarks == 2

\* A candle given by its distances from StageBase.
StageCandle(low, high, close, volume) ==
    [open |-> StageBase + close, high |-> StageBase + high,
     low |-> StageBase + low, close |-> StageBase + close, volume |-> volume]

PointCandle == StageCandle(0, 0, 0, 1)

StageCandles ==
    {PointCandle,
     StageCandle(-25, 25, 10, 1),
     StageCandle(0, 50, 40, 2),
     StageCandle(0, 100, 75, 1),
     StageCandle(0, 100, 76, 1),
     StageCandle(50, 50, 50, 3),
     StageCandle(-50, 0, -50, 1)}

\* The candles the last row holds: the current price is at, above or below
\* StageBase.
LastCandles ==
    {PointCandle, StageCandle(0, 50, 40, 2), StageCandle(-50, 0, -50, 1)}

MarkRow(k) == 4 + 4 * k

StageSeries ==
    {[t \in 1..n |->
         IF t = n THEN last
         ELSE IF \E k \in 1..MaxMarks : t = MarkRow(k)
         THEN marks[(t - 4) \div 4]
         ELSE PointCandle] :
        n \in {MinCandles, MinCandles + 1},
        marks \in [1..MaxMarks -> StageCandles],
        last \in LastCandles}

InitStages ==
    /\ IdleAnalyze
    /\ IdleSR
    /\ IdleSummary
    /\ IdleIndicators
    /\ IdlePatterns
    /\ IdleEndpoints
    /\ df \in StageSeries
    /\ pivot_levels = <<>>
    /\ horizontal_levels = <<>>
    /\ volume_levels = <<>>
    /\ merged_levels = <<>>
    /\ stage_raised = None
    /\ stage_pc = "pivot"

NextStages ==
    \/ DetectPivotLevels
    \/ DetectHorizontalLevels
    \/ DetectVolumeWeightedLevels
    \/ MergeLevels

SpecStages == InitStages /\ [][NextStages]_vars

(***************************************************************************)
(* Claims about the support/resistance engine (checked under SpecSR).      *)
(***************************************************************************)

\* _classify_and_rank_levels has run.
Ranked == sr_pc \in {"nearest", "signal", "breaks", "result", "done"}

\* The levels _classify_and_rank_levels returns, as references.
Retained == Range(support_levels) \cup Range(resistance_levels)

\* |p1 - p2| / p2 * 100 < 0.1
WithinTenthPercent(p1, p2) == Abs(p1 - p2) * 1000 < p2

\* C4: after _classify_and_rank_levels no two distinct returned levels have
\* prices within 0.1% of each other.
C4_NoTwoRetainedLevelsWithinTenthPercent ==
    Ranked =>
        \A r1, r2 \in Retained :
            r1 # r2 =>
                ~WithinTenthPercent(all_levels[r1].price, all_levels[r2].price)

\* C5: every detected level that is not returned has a returned level within
\* 0.1% of its price (measured against either price) whose strength is at
\* least its own.
C5_DroppedLevelHasStrongerNeighbour ==
    Ranked =>
        \A i \in 1..Len(all_levels) :
            i \notin Retained =>
                \E r \in Retained :
                    /\ \/ WithinTenthPercent(all_levels[i].price, all_levels[r].price)
                       \/ WithinTenthPercent(all_levels[r].price, all_levels[i].price)
                    /\ all_levels[r].strength >= all_levels[i].strength

\* Two returned levels are one tick (0.05%) apart.
RetainedNeighboursOneTickApart ==
    /\ Ranked
    /\ \E r1, r2 \in Retained :
          Abs(all_levels[r1].price - all_levels[r2].price) = 1

\* The duplicate removal never keeps a level twice and never invents one;
\* what C4 and C5 leave standing of the merge step.
DedupeKeepsDetectedLevelsOnce ==
    Ranked =>
        /\ Retained \subseteq 1..Len(all_levels)
        /\ Cardinality(Retained) = Len(support_levels) + Len(resistance_levels)
        /\ (all_levels # <<>>) => Retained # {}

\* C6: every level of the returned support list is priced strictly below the
\* current close and typed "support", every level of the returned resistance
\* list is priced at or above it and typed "resistance", whatever the
\* detection stage had labelled them; every retained level is in exactly one
\* of the two lists, and the result carries the same types.
C6_LevelTypeFollowsCurrentClose ==
    /\ Ranked =>
          /\ \A r \in Range(support_levels) :
                /\ all_levels[r].price < current_price
                /\ all_levels[r].level_type = "support"
          /\ \A r \in Range(resistance_levels) :
                /\ all_levels[r].price >= current_price
                /\ all_levels[r].level_type = "resistance"
          /\ Range(support_levels) \cap Range(resistance_levels) = {}
          /\ Cardinality(Range(support_levels)) = Len(support_levels)
          /\ Cardinality(Range(resistance_levels)) = Len(resistance_levels)
          /\ Retained = Range(unique_levels(detected_levels))
    /\ sr_pc = "done" =>
          /\ \A k \in 1..Len(sr_result.support_levels) :
                /\ sr_result.support_levels[k].level_type = "support"
                /\ sr_result.support_levels[k].price < sr_result.current_price
          /\ \A k \in 1..Len(sr_result.resistance_levels) :
                /\ sr_result.resistance_levels[k].level_type = "resistance"
                /\ sr_result.resistance_levels[k].price >= sr_result.current_price

\* C6 witness: the result holds a support level that detection had labelled
\* resistance and a resistance level that detection had labelled support.
C6_Witness ==
    /\ sr_pc = "done"
    /\ \E r \in Range(support_levels) :
          /\ detected_levels[r].level_type = "resistance"
          /\ all_levels[r] \in Range(sr_result.support_levels)
    /\ \E r \in Range(resistance_levels) :
          /\ detected_levels[r].level_type = "support"
          /\ all_levels[r] \in Range(sr_result.resistance_levels)

\* One side of the result against the ranked list it was cut from: at most
\* five levels, the first ones of the list, in non-increasing strength, none
\* weaker than a level of that side that was left out.
KeepsStrongestFive(kept, refs) ==
    /\ Len(kept) <= 5
    /\ Len(kept) <= Len(refs)
    /\ Len(refs) <= 5 => Len(kept) = Len(refs)
    /\ \A k \in 1..Len(kept) : kept[k] = all_levels[refs[k]]
    /\ \A k \in 1..(Len(kept) - 1) : kept[k].strength >= kept[k + 1].strength
    /\ \A r \in Range(refs) :
          (\A k \in 1..Len(kept) : refs[k] # r) =>
              \A k \in 1..Len(kept) : all_levels[r].strength <= kept[k].strength

\* C7: support_levels and resistance_levels of the result each hold at most
\* 5 levels in non-increasing strength order, and no retained level of the
\* same side that was left out is strictly stronger than a level kept.
C7_TopFiveByStrength ==
    sr_pc = "done" =>
        /\ KeepsStrongestFive(sr_result.support_levels, support_levels)
        /\ KeepsStrongestFive(sr_result.resistance_levels, resistance_levels)
        /\ Range(support_levels) =
              {r \in Range(unique_levels(detected_levels)) :
                  detected_levels[r].price < current_price}
        /\ Range(resistance_levels) =
              {r \in Range(unique_levels(detected_levels)) :
                  detected_levels[r].price >= current_price}

\* C7 witness: more than five support levels were retained, of unequal
\* strengths, and the result holds five of them.
C7_Witness ==
    /\ sr_pc = "done"
    /\ Len(support_levels) > 5
    /\ Len(sr_result.support_levels) = 5
    /\ \E r1, r2 \in Range(support_levels) :
          all_levels[r1].strength < all_levels[r2].strength

\* The retained levels strictly below / strictly above the current close.
RetainedBelow == {r \in Retained : all_levels[r].price < current_price}
RetainedAbove == {r \in Retained : all_levels[r].price > current_price}

NearestFound == sr_pc \in {"signal", "breaks", "result", "done"}

\* C8: nearest_support is a highest-priced retained level strictly below the
\* current close (over all retained levels, not only the five returned) and
\* nearest_resistance a lowest-priced one strictly above it; each is absent
\* exactly when there is no such level; so nearest_support.price <
\* current_price < nearest_resistance.price when both exist.
C8_NearestLevels ==
    /\ NearestFound =>
          /\ nearest_support = NoLevel <=> RetainedBelow = {}
          /\ nearest_support # NoLevel =>
                /\ nearest_support \in RetainedBelow
                /\ \A r \in RetainedBelow :
                      all_levels[r].price <= all_levels[nearest_support].price
          /\ nearest_resistance = NoLevel <=> RetainedAbove = {}
          /\ nearest_resistance # NoLevel =>
                /\ nearest_resistance \in RetainedAbove
                /\ \A r \in RetainedAbove :
                      all_levels[r].price >= all_levels[nearest_resistance].price
          /\ (nearest_support # NoLevel /\ nearest_resistance # NoLevel) =>
                /\ all_levels[nearest_support].price < current_price
                /\ current_price < all_levels[nearest_resistance].price
    /\ sr_pc = "done" =>
          /\ sr_result.nearest_support = Deref(all_levels, nearest_support)
          /\ sr_result.nearest_resistance = Deref(all_levels, nearest_resistance)

\* C8 witness: both nearest levels are returned although a retained level
\* sits exactly at the current close.
C8_Witness ==
    /\ sr_pc = "done"
    /\ sr_result.nearest_support # None /\ sr_result.nearest_resistance # None
    /\ \E r \in Retained : all_levels[r].price = current_price

\* The nearest support is not among the five support levels returned.
NearestSupportOutsideTopFive ==
    /\ sr_pc = "done"
    /\ nearest_support # NoLevel
    /\ all_levels[nearest_support] \notin Range(sr_result.support_levels)

SignalGenerated == sr_pc \in {"breaks", "result", "done"}

\* The change from the fifth-last close to the last close, in percent, is
\* below -1 / above +1.
FallingMoreThan1 ==
    (recent_closes[5] - recent_closes[1]) * 100 < -1 * recent_closes[1]
RisingMoreThan1 ==
    (recent_closes[5] - recent_closes[1]) * 100 > recent_closes[1]

\* The level exists and lies within 2% of the current close.
Close2Percent(r) ==
    /\ r # NoLevel
    /\ Abs(current_price - all_levels[r].price) * 100 <= 2 * current_price

\* C9: the signal is APPROACHING_SUPPORT exactly when a nearest support
\* exists within 2% of the current close and the five-candle change is below
\* -1%; otherwise it is APPROACHING_RESISTANCE exactly when a nearest
\* resistance exists within 2% and the change is above +1%; it is always one
\* of the five signal names.
C9_PriceActionSignal ==
    SignalGenerated =>
        /\ price_action_signal = "APPROACHING_SUPPORT" <=>
              (Close2Percent(nearest_support) /\ FallingMoreThan1)
        /\ price_action_signal # "APPROACHING_SUPPORT" =>
              (price_action_signal = "APPROACHING_RESISTANCE" <=>
                  (Close2Percent(nearest_resistance) /\ RisingMoreThan1))
        /\ price_action_signal \in
              {"APPROACHING_SUPPORT", "APPROACHING_RESISTANCE", "BREAKDOWN",
               "BREAKOUT", "NEUTRAL"}
        /\ sr_pc = "done" => sr_result.price_action_signal = price_action_signal

\* C9 witness: the price is falling with the nearest support within 2%, a
\* nearest resistance is within 2% as well, and the signal is
\* APPROACHING_SUPPORT.
C9_Witness ==
    /\ sr_pc = "done"
    /\ Close2Percent(nearest_support) /\ Close2Percent(nearest_resistance)
    /\ FallingMoreThan1
    /\ sr_result.price_action_signal = "APPROACHING_SUPPORT"

\* The signal is APPROACHING_RESISTANCE with a nearest support within 2%.
ApproachingResistanceNearSupport ==
    /\ sr_pc = "done"
    /\ Close2Percent(nearest_support)
    /\ sr_result.price_action_signal = "APPROACHING_RESISTANCE"

\* A swing low (a level the pivot stage labelled support) lies above the
\* current close, within 2% of it: the price is now below that support.
\* Likewise a swing high below the current close.
BelowDetectedSupport ==
    \E i \in 1..Len(detected_levels) :
        /\ detected_levels[i].level_type = "support"
        /\ current_price < detected_levels[i].price
        /\ Abs(current_price - detected_levels[i].price) * 100 <= 2 * current_price
AboveDetectedResistance ==
    \E i \in 1..Len(detected_levels) :
        /\ detected_levels[i].level_type = "resistance"
        /\ current_price > detected_levels[i].price
        /\ Abs(current_price - detected_levels[i].price) * 100 <= 2 * current_price

\* C10: the engine reports BREAKDOWN when the current price is now below the
\* support level and BREAKOUT when it is now above the resistance level
\* (the price not moving by more than 1% over the last five candles, so that
\* no APPROACHING signal is due).
C10_BreakdownAndBreakoutReported ==
    (sr_pc = "done" /\ ~FallingMoreThan1 /\ ~RisingMoreThan1) =>
        /\ (BelowDetectedSupport /\ ~AboveDetectedResistance) =>
              sr_result.price_action_signal = "BREAKDOWN"
        /\ (AboveDetectedResistance /\ ~BelowDetectedSupport) =>
              sr_result.price_action_signal = "BREAKOUT"

\* What the code does instead: neither BREAKDOWN nor BREAKOUT is ever
\* returned, since the nearest support is always below and the nearest
\* resistance always above the current close.
NeverBreakdownNorBreakout ==
    SignalGenerated => price_action_signal \notin {"BREAKDOWN", "BREAKOUT"}

\* _detect_recent_breaks has run.
BreaksDetected == sr_pc \in {"result", "done"}

\* The rows of df that are among its last 20 candles.
RecentRows == {t \in 1..Len(df_close) : t > Len(df_close) - RecentCandles}

\* Every break of a strong level over the last 20 candles: a close strictly
\* above a support followed by a close strictly below it, or a close strictly
\* below a resistance followed by a close strictly above it.
DetectedBreaks ==
    {[timestamp |-> t,
      level_price |-> all_levels[i].price,
      break_type |-> IF all_levels[i].level_type = "support"
                     THEN "breakdown" ELSE "breakout",
      significance |-> all_levels[i].strength,
      price_at_break |-> df_close[t]] :
        <<i, t>> \in {<<i, t>> \in (DOMAIN all_levels) \X RecentRows :
            /\ t - 1 \in RecentRows
            /\ all_levels[i].strength >= 5
            /\ \/ /\ all_levels[i].level_type = "support"
                  /\ df_close[t - 1] > all_levels[i].price
                  /\ df_close[t] < all_levels[i].price
               \/ /\ all_levels[i].level_type = "resistance"
                  /\ df_close[t - 1] < all_levels[i].price
                  /\ df_close[t] > all_levels[i].price}}

\* C11: key_level_breaks holds at most 3 entries in non-increasing order of
\* significance; every entry has significance >= 5 and records two consecutive
\* closes of the last 20 candles, the earlier strictly on one side of the
\* level price and the later strictly on the other (breakdown: above then
\* below; breakout: below then above); no detected break of strictly higher
\* significance than an emitted one is left out; the result carries the list.
C11_KeyLevelBreaks ==
    BreaksDetected =>
        /\ Len(key_level_breaks) <= 3
        /\ \A j \in 1..(Len(key_level_breaks) - 1) :
              key_level_breaks[j].significance >= key_level_breaks[j + 1].significance
        /\ \A j \in DOMAIN key_level_breaks :
              LET b == key_level_breaks[j]
                  t == b.timestamp
              IN /\ b.significance >= 5
                 /\ t \in RecentRows /\ t - 1 \in RecentRows
                 /\ b.price_at_break = df_close[t]
                 /\ b.break_type \in {"breakdown", "breakout"}
                 /\ b.break_type = "breakdown" =>
                       df_close[t - 1] > b.level_price /\ df_close[t] < b.level_price
                 /\ b.break_type = "breakout" =>
                       df_close[t - 1] < b.level_price /\ df_close[t] > b.level_price
        /\ \A d \in DetectedBreaks : \A j \in DOMAIN key_level_breaks :
              d.significance > key_level_breaks[j].significance =>
                  d \in Range(key_level_breaks)
        /\ sr_pc = "done" => sr_result.key_level_breaks = key_level_breaks

\* Three breaks are returned, the first of them from a level that comes later
\* in all_levels than a weaker level one of whose breaks is left out.
C11_Witness ==
    /\ sr_pc = "done"
    /\ Len(sr_result.key_level_breaks) = 3
    /\ \E d \in DetectedBreaks :
          /\ d \notin Range(sr_result.key_level_breaks)
          /\ d.significance < sr_result.key_level_breaks[1].significance
    /\ \E i, k \in DOMAIN all_levels :
          /\ i < k
          /\ all_levels[i].strength < all_levels[k].strength
          /\ all_levels[i].strength >= 5

\* A crossing between the 21st and the 20th candle from the end is not
\* reported.
CrossingBeforeTheLast20 ==
    /\ sr_pc = "done"
    /\ Len(df_close) > RecentCandles
    /\ \E i \in DOMAIN all_levels :
          /\ all_levels[i].strength >= 5
          /\ all_levels[i].level_type = "resistance"
          /\ df_close[1] < all_levels[i].price
          /\ df_close[2] > all_levels[i].price
    /\ sr_result.key_level_breaks = <<>>

(***************************************************************************)
(* Claims about _generate_summary (checked under SpecSummary).             *)
(***************************************************************************)

\* _generate_summary has returned.
SummaryReturned == sum_pc = "done"

\* The ways of ordering n results.
Orderings(n) ==
    {f \in [1..n -> 1..n] : \A i, j \in 1..n : f[i] = f[j] => i = j}

Reordered(results, f) == [i \in 1..Len(results) |-> results[f[i]]]

\* C12: the aggregate does not depend on the order in which the timeframe
\* results are merged: every ordering of the results that were passed gives
\* the same strongest_support, the same strongest_resistance and the same
\* recent_breaks list as the summary returned.
C12_MergeOrderDoesNotMatter ==
    SummaryReturned =>
        \A f \in Orderings(Len(passed_results)) :
            LET returned == summary.support_resistance_summary
                other == support_resistance_summary(Reordered(passed_results, f))
            IN /\ other.strongest_support = returned.strongest_support
               /\ other.strongest_resistance = returned.strongest_resistance
               /\ other.recent_breaks = returned.recent_breaks

\* Two timeframes whose strongest supports are of equal strength at different
\* prices: the summary names the one of the timeframe merged first.
StrongestSupportOfFirstMerged ==
    /\ SummaryReturned
    /\ Len(passed_results) = 2
    /\ LET first == passed_results[1].indicators["SupportResistance"].support_levels
           second == passed_results[2].indicators["SupportResistance"].support_levels
       IN /\ first # <<>> /\ second # <<>>
          /\ first[1].strength = second[1].strength
          /\ first[1].price # second[1].price
          /\ summary.support_resistance_summary.strongest_support = first[1]

\* The signal-bearing indicators of all results whose signal is in S.
SignalBearing(results, S) ==
    Cardinality({e \in (DOMAIN results) \X SignalIndicators :
        results[e[1]].indicators[e[2]].signal \in S})

\* overall_signals has been computed.
SignalsAggregated == sum_pc \in {"levels", "rank", "done"}

\* C13: the percentages are computed over exactly the eight signal-bearing
\* indicators of every timeframe: the shares of BULLISH, of BEARISH and of
\* all other signals, times 100, rounded to 2 decimals; when all eight
\* indicators of every timeframe are BULLISH, bullish_percentage is 100.
C13_PercentagesOverSignalBearingIndicators ==
    SignalsAggregated =>
        LET total == 8 * Len(passed_results)
            signals == summary.overall_signals
        IN /\ signals.bullish_percentage =
                 RoundedPercentage(SignalBearing(passed_results, {"BULLISH"}), total)
           /\ signals.bearish_percentage =
                 RoundedPercentage(SignalBearing(passed_results, {"BEARISH"}), total)
           /\ signals.neutral_percentage =
                 RoundedPercentage(
                     SignalBearing(passed_results,
                                   {"NEUTRAL", "OVERBOUGHT", "OVERSOLD"}), total)
           /\ SignalBearing(passed_results, {"BULLISH"}) = total =>
                 signals.bullish_percentage = 10000

\* All eight indicators of the only timeframe are BULLISH and the summary
\* says 88.89% bullish, 11.11% neutral: the SupportResistance entry is counted.
AllBullishIsNot100 ==
    /\ SummaryReturned
    /\ Len(passed_results) = 1
    /\ SignalBearing(passed_results, {"BULLISH"}) = 8
    /\ summary.overall_signals.bullish_percentage = 8889
    /\ summary.overall_signals.neutral_percentage = 1111

\* C14: aggregation only reads its inputs: after _generate_summary returns,
\* every TimeframeAnalysis passed to it (its indicators map, each entry of
\* key_level_breaks included, and its candlestick_patterns) is equal to what
\* it was before the call.
C14_InputsNotModified ==
    SummaryReturned => tf_results = passed_results

\* A break dict of an input has gained a "timeframe" key.
InputBreakTagged ==
    /\ SummaryReturned
    /\ \E i \in DOMAIN tf_results :
          LET before == passed_results[i].indicators["SupportResistance"].key_level_breaks
              after == tf_results[i].indicators["SupportResistance"].key_level_breaks
          IN /\ before # <<>>
             /\ "timeframe" \notin DOMAIN before[1]
             /\ "timeframe" \in DOMAIN after[1]
             /\ after[1].timeframe = tf_results[i].timeframe

(***************************************************************************)
(* Claims about the pattern detectors (checked under SpecPatterns).        *)
(***************************************************************************)

\* The rows of df, counted from 0.
Rows == 0..(Len(df) - 1)

\* The detectors that have returned.
Detected == DOMAIN patterns

\* The occurrences a detector emitted at row i.
OccurrencesAt(detector, i) ==
    {o \in Range(patterns[detector].occurrences) : o.candle_index = i}

\* low <= open, close <= high
ConsistentOHLC(candle) ==
    /\ candle.low <= candle.open /\ candle.open <= candle.high
    /\ candle.low <= candle.close /\ candle.close <= candle.high

\* C15: every occurrence emitted by any of the six detectors has a confidence
\* in [0, 0.9], for every series of candles with consistent OHLC values.
C15_ConfidenceWithinBounds ==
    (\A t \in DOMAIN df : ConsistentOHLC(df[t])) =>
        \A detector \in Detected :
            \A o \in Range(patterns[detector].occurrences) :
                /\ o.confidence.den > 0
                /\ o.confidence.num >= 0
                /\ 10 * o.confidence.num <= 9 * o.confidence.den

\* All detectors have returned; a hammer whose lower shadow exceeds its body
\* by more than 40% of the range has confidence 0.9, and a harami has less.
C15_Witness ==
    /\ pat_pc = "done"
    /\ \A t \in DOMAIN df : ConsistentOHLC(df[t])
    /\ \E o \in Range(patterns["hammer"].occurrences) :
          LET candle == Row(df, o.candle_index)
          IN /\ 10 * (LowerShadow(candle) - BodyLength(candle)) > 4 * TotalRange(candle)
             /\ 10 * o.confidence.num = 9 * o.confidence.den
    /\ \E o \in Range(patterns["harami"].occurrences) :
          10 * o.confidence.num < 9 * o.confidence.den

\* The previous candle is bearish and the current one is bullish, opens
\* below the previous close, closes above the previous open, and its high
\* and low envelop the previous high and low.
BullishEngulfingShape(i) ==
    LET previous == Row(df, i - 1)
        current == Row(df, i)
    IN /\ previous.close < previous.open
       /\ current.close > current.open
       /\ current.open < previous.close
       /\ current.close > previous.open
       /\ current.high >= previous.high
       /\ current.low <= previous.low

\* C16: for every such pair the Engulfing detector emits exactly one
\* occurrence at the current candle's index, named "Bullish Engulfing", with
\* confidence min(0.9, 0.6 + 0.1 * current_body / previous_body), which lies
\* in (0.6, 0.9]; in a two-candle series it is the only occurrence, at index 1.
C16_BullishEngulfingReported ==
    "engulfing" \in Detected =>
        \A i \in Rows \ {0} :
            BullishEngulfingShape(i) =>
                LET current_body == BodyLength(Row(df, i))
                    previous_body == BodyLength(Row(df, i - 1))
                IN /\ Cardinality(OccurrencesAt("engulfing", i)) = 1
                   /\ \A o \in OccurrencesAt("engulfing", i) :
                         /\ o.name = "Bullish Engulfing"
                         /\ IF 6 * previous_body + current_body < 9 * previous_body
                            THEN o.confidence.num * 10 * previous_body =
                                    (6 * previous_body + current_body) * o.confidence.den
                            ELSE o.confidence.num * 10 = 9 * o.confidence.den
                         /\ 10 * o.confidence.num > 6 * o.confidence.den
                         /\ 10 * o.confidence.num <= 9 * o.confidence.den
                   /\ Len(df) = 2 =>
                         /\ patterns["engulfing"].total_count = 1
                         /\ patterns["engulfing"].occurrences[1].candle_index = 1

\* A two-candle series of that shape, reported with a confidence below 0.9.
C16_Witness ==
    /\ pat_pc = "done"
    /\ Len(df) = 2
    /\ BullishEngulfingShape(1)
    /\ patterns["engulfing"].total_count = 1
    /\ \E o \in OccurrencesAt("engulfing", 1) :
          /\ o.name = "Bullish Engulfing"
          /\ 10 * o.confidence.num < 9 * o.confidence.den

\* open = close = high = low
IsFlat(candle) ==
    /\ candle.open = candle.close
    /\ candle.high = candle.low
    /\ candle.high = candle.open

\* The series is the flat series of 60 candles.
FlatSeries == Len(df) = FlatCandles /\ \A t \in DOMAIN df : IsFlat(df[t])

\* C17: for a flat series of 60 candles the Doji detector reports an
\* occurrence at every index 0..59 (total_count = 60).
C17_FlatSeriesIsAllDoji ==
    ("doji" \in Detected /\ FlatSeries) =>
        /\ patterns["doji"].total_count = FlatCandles
        /\ \A i \in Rows : OccurrencesAt("doji", i) # {}

\* The Doji detector returns no occurrence for the flat series.
FlatSeriesHasNoDoji ==
    /\ pat_pc = "done"
    /\ FlatSeries
    /\ patterns["doji"].total_count = 0
    /\ patterns["doji"].last_occurrence = NoTimestamp

\* The three single-candle detectors have returned.
SingleCandleDetected == {"hammer", "doji", "marubozu"} \subseteq Detected

\* C18: a candle whose total range is zero gets no occurrence from the
\* Hammer, Doji and Marubozu detectors, and the scan goes on: every other
\* candle is reported exactly when it meets the detector's ratios.
C18_ZeroRangeCandleSkipped ==
    SingleCandleDetected =>
        \A i \in Rows :
            LET candle == Row(df, i)
                body == BodyLength(candle)
                range == TotalRange(candle)
                lower == LowerShadow(candle)
                upper == UpperShadow(candle)
            IN IF range = 0
               THEN /\ OccurrencesAt("hammer", i) = {}
                    /\ OccurrencesAt("doji", i) = {}
                    /\ OccurrencesAt("marubozu", i) = {}
               ELSE /\ OccurrencesAt("hammer", i) # {} <=>
                          /\ 10 * body < 3 * range
                          /\ 10 * lower > 6 * range
                          /\ 10 * upper < range
                    /\ OccurrencesAt("doji", i) # {} <=> 20 * body < range
                    /\ OccurrencesAt("marubozu", i) # {} <=>
                          /\ 10 * body > 9 * range
                          /\ 10 * (lower + upper) < range

\* A zero-range candle is followed by candles the three detectors report.
C18_Witness ==
    /\ pat_pc = "done"
    /\ Len(df) > 1
    /\ TotalRange(Row(df, 0)) = 0
    /\ OccurrencesAt("doji", 0) = {}
    /\ \E i, k \in Rows \ {0} :
          /\ OccurrencesAt("doji", i) # {}
          /\ OccurrencesAt("hammer", k) # {} \/ OccurrencesAt("marubozu", k) # {}

\* The two-candle detectors have returned.
TwoCandleDetected == {"engulfing", "harami"} \subseteq Detected

\* C19: for every pair of consecutive candles in which the previous candle's
\* body length is zero, the Engulfing and Harami detectors emit no occurrence
\* at the current index (the division by the previous body is not made).
C19_ZeroPreviousBodySkipped ==
    TwoCandleDetected =>
        \A i \in Rows \ {0} :
            BodyLength(Row(df, i - 1)) = 0 =>
                /\ OccurrencesAt("engulfing", i) = {}
                /\ OccurrencesAt("harami", i) = {}

\* After a candle with open = close, a bullish candle that engulfs it is
\* reported as "Bullish Engulfing" with confidence 0.9: the quotient by the
\* zero body was taken.
EngulfingOverZeroBody ==
    /\ pat_pc = "done"
    /\ \E i \in Rows \ {0} :
          /\ BodyLength(Row(df, i - 1)) = 0
          /\ \E o \in OccurrencesAt("engulfing", i) :
                /\ o.name = "Bullish Engulfing"
                /\ o.confidence = Rat(9, 10)

\* The Harami detector never reports a candle that follows a zero body.
HaramiSkipsZeroPreviousBody ==
    "harami" \in Detected =>
        \A i \in Rows \ {0} :
            BodyLength(Row(df, i - 1)) = 0 => OccurrencesAt("harami", i) = {}

(***************************************************************************)
(* Claims about analyze_stock (checked under Spec).                        *)
(***************************************************************************)

\* The i-th requested timeframe is one whose analysis does not raise: the
\* data service answers, with at least MinCandles candles, and no
\* computation fails.
Succeeds(i) ==
    /\ market[i].fetch = "ok"
    /\ market[i].n >= 50
    /\ market[i].compute = "ok"

RECURSIVE SucceededFrom(_)
SucceededFrom(i) ==
    IF i > Len(timeframes) THEN <<>>
    ELSE IF Succeeds(i) THEN <<timeframes[i]>> \o SucceededFrom(i + 1)
    ELSE SucceededFrom(i + 1)

Finished == pc \in {"done", "failed"}

\* C1: the timeframes are processed one after another; a timeframe whose
\* analysis raises does not stop the loop (every requested timeframe has been
\* either analysed completely or logged as failed when analyze_stock ends),
\* and the returned response holds exactly the timeframes that succeeded, in
\* request order, with summary.total_timeframes equal to their number.
C1_FailedTimeframeDoesNotAbort ==
    /\ Finished =>
          /\ idx = Len(timeframes) + 1
          /\ Len(log) + Len(timeframe_results) = Len(timeframes)
          /\ \A k \in 1..Len(timeframe_results) :
                /\ timeframe_results[k].indicators = IndicatorNames
                /\ timeframe_results[k].candlestick_patterns
    /\ pc = "done" =>
          /\ [k \in 1..Len(response.timeframe_results) |->
                 response.timeframe_results[k].timeframe] = SucceededFrom(1)
          /\ response.summary.total_timeframes = Len(SucceededFrom(1))

\* C1 witness: a response was returned although an earlier timeframe of the
\* request had failed and a later one succeeded.
C1_Witness ==
    /\ pc = "done"
    /\ \E i, j \in 1..Len(timeframes) : i < j /\ ~Succeeds(i) /\ Succeeds(j)
    /\ Len(response.timeframe_results) >= 2

\* C2: analyze_stock ends by raising (no response, no summary) exactly when
\* no requested timeframe was analysed successfully, the empty request
\* included; it ends by returning a response exactly when one succeeded; and
\* it ends in no other way.
C2_FailsIffNoTimeframeSucceeded ==
    /\ pc = "failed" =>
          /\ raised # None /\ response = None
          /\ \A i \in 1..Len(timeframes) : ~Succeeds(i)
    /\ pc = "done" =>
          /\ raised = None /\ response # None
          /\ response.summary.total_timeframes >= 1
          /\ \E i \in 1..Len(timeframes) : Succeeds(i)
    /\ ~Finished => raised = None /\ response = None /\ ENABLED Next

\* C2 witness: a request of several timeframes, all of which failed, ended
\* with the error.
C2_Witness ==
    /\ pc = "failed"
    /\ Len(timeframes) >= 2
    /\ raised.message = "No successful analysis for any timeframe"

\* C3: at the length check of _analyze_timeframe the series is rejected
\* exactly when it is absent or shorter than 50 candles, and then nothing has
\* been computed for it (no TimeframeAnalysis exists, no result is added);
\* otherwise (50 candles included) the analysis starts with data_points equal
\* to the number of candles, which the finished result keeps.
C3_RejectsIffFewerThan50 ==
    [][/\ pc = "validate" =>
            IF market[idx].n = 0 \/ market[idx].n < 50
            THEN /\ log' = Append(log, [timeframe |-> timeframes[idx],
                                        error |-> "Insufficient data for analysis"])
                 /\ analysis = None /\ analysis' = None
                 /\ timeframe_results' = timeframe_results
                 /\ pc' = "loop"
            ELSE /\ pc' = "compute"
                 /\ log' = log
                 /\ analysis'.data_points = market[idx].n
                 /\ analysis'.indicators = {}
       /\ (pc = "compute" /\ pc' = "loop" /\ log' = log) =>
            timeframe_results'[Len(timeframe_results')].data_points = market[idx].n
      ]_vars

\* C3 witness: a series of exactly 50 candles was analysed and its result
\* records 50 data points.
C3_Witness ==
    \E k \in 1..Len(timeframe_results) : timeframe_results[k].data_points = 50

(***************************************************************************)
(* Claims about the indicators (checked under SpecIndicators).             *)
(***************************************************************************)

MovingAverages == {"_calculate_ma", "_calculate_ema", "_calculate_vwap"}

\* The series the indicator function f computes over df.
SeriesOf(f) ==
    IF f = "_calculate_ma" THEN sma_indicator(Column(df, "close"), period)
    ELSE IF f = "_calculate_ema" THEN ema_indicator(Column(df, "close"), period)
    ELSE volume_weighted_average_price(Column(df, "high"), Column(df, "low"),
                                       Column(df, "close"), Column(df, "volume"))

\* The last value of f's series is undefined.
LastUndefined(f) == isna(SeriesOf(f)[Len(df)])

\* f has returned its result.
Returned(f) == f \in DOMAIN ind_results

\* f was called and raised.
RaisedIn(f) == ind_raised # None /\ ind_raised.in = f

\* C20: when the last value of its series is undefined, each of
\* _calculate_ma, _calculate_ema and _calculate_vwap, once called, has
\* returned a result with no current_value and signal NEUTRAL, and has not
\* raised.
C20_UndefinedValueReturnsNeutral ==
    \A f \in MovingAverages :
        (LastUndefined(f) /\ (Returned(f) \/ RaisedIn(f))) =>
            /\ ~RaisedIn(f)
            /\ Returned(f)
            /\ ind_results[f].current_value = None
            /\ ind_results[f].signal = "NEUTRAL"

\* What the code does instead: a function whose last value is undefined never
\* returns; it raises TypeError and no later indicator is calculated.
UndefinedValueRaisesTypeError ==
    \A f \in MovingAverages :
        LastUndefined(f) =>
            /\ ~Returned(f)
            /\ ind_pc \in {"raised", "done"} =>
                  \/ ind_raised = Raised("TypeError", f)
                  \/ \E g \in MovingAverages : RaisedIn(g) /\ g # f

\* _calculate_ma was called on a series shorter than its period, raised
\* TypeError, and neither _calculate_ema nor _calculate_vwap was calculated.
ShortSeriesRaisedInMA ==
    /\ Len(df) < period
    /\ ind_raised = Raised("TypeError", "_calculate_ma")
    /\ ind_pc = "raised"
    /\ ind_results = EmptyDict

\* _calculate_vwap was called on a full window without volume and raised.
NoVolumeRaisedInVWAP ==
    /\ Len(df) >= VwapWindow
    /\ ind_raised = Raised("TypeError", "_calculate_vwap")

\* All three have returned, each with a current value and a signal.
AllThreeReturned ==
    /\ ind_pc = "done"
    /\ \A f \in MovingAverages :
          /\ Returned(f)
          /\ ind_results[f].current_value # None
          /\ ind_results[f].signal \in {"BULLISH", "BEARISH"}



\* a = b, as quotients
Equal(a, b) == a.num * b.den = b.num * a.den

RSIReturned == Returned("_calculate_rsi")

\* The RSIResult that was returned.
RSI == ind_results["_calculate_rsi"]

\* The signal the thresholds give a defined RSI value r.
RSIBand(r) ==
    IF Less(Rat(70, 1), r) THEN "OVERBOUGHT"
    ELSE IF Less(r, Rat(30, 1)) THEN "OVERSOLD"
    ELSE IF Less(Rat(50, 1), r) THEN "BULLISH"
    ELSE "BEARISH"

\* C21: a returned RSIResult with a defined current value r, r = 0 included,
\* has signal OVERBOUGHT if r > 70, OVERSOLD if r < 30, BULLISH if
\* 50 < r <= 70 and BEARISH if 30 <= r <= 50; its signal is NEUTRAL only when
\* the current value is undefined.
C21_RSISignalFollowsValue ==
    RSIReturned =>
        IF RSI.current_value = None THEN RSI.signal = "NEUTRAL"
        ELSE RSI.signal = RSIBand(RSI.current_value)

\* What holds of the code: the thresholds decide the signal of every defined
\* current value other than 0, and the current value lies in [0, 100].
RSISignalOfNonZeroValue ==
    (RSIReturned /\ RSI.current_value # None) =>
        /\ ~Less(RSI.current_value, Rat(0, 1))
        /\ ~Less(Rat(100, 1), RSI.current_value)
        /\ RSI.current_value.num # 0 => RSI.signal = RSIBand(RSI.current_value)

\* A series that only fell: the RSI is 0, defined, and the signal is NEUTRAL.
RSIOfZeroIsNeutral ==
    /\ RSIReturned
    /\ RSI.current_value = Rat(0, 1)
    /\ RSI.signal = "NEUTRAL"

\* Each of the four bands is met by some series.
RSIOverbought == RSIReturned /\ RSI.signal = "OVERBOUGHT"
RSIOversold == RSIReturned /\ RSI.signal = "OVERSOLD"
RSIBullish == RSIReturned /\ RSI.signal = "BULLISH"
RSIBearish == RSIReturned /\ RSI.signal = "BEARISH"

MACDReturned == Returned("_calculate_macd")

\* The MACDResult that was returned.
MACD == ind_results["_calculate_macd"]

\* histogram[i] = macd_line[i] - signal_line[i] in the returned arrays
HistogramMatchesAt(i) ==
    Equal(MACD.histogram[i], Minus(MACD.macd_line[i], MACD.signal_line[i]))

\* C22: in every returned MACDResult the three arrays are as long as the
\* series and histogram[i] = macd_line[i] - signal_line[i] at every index i,
\* the warm-up indices where only the MACD line is defined included.
C22_HistogramIsLineMinusSignal ==
    MACDReturned =>
        /\ Len(MACD.macd_line) = Len(df)
        /\ Len(MACD.signal_line) = Len(df)
        /\ Len(MACD.histogram) = Len(df)
        /\ \A i \in 1..Len(df) : HistogramMatchesAt(i)

\* What holds of the code: the arrays are aligned, and the identity holds
\* before the MACD line is defined and from where the signal line is.
HistogramMatchesOutsideSignalWarmup ==
    MACDReturned =>
        /\ Len(MACD.macd_line) = Len(df)
        /\ Len(MACD.signal_line) = Len(df)
        /\ Len(MACD.histogram) = Len(df)
        /\ \A i \in 1..Len(df) :
              (i < macd_windows[2] \/ i >= macd_windows[2] + macd_windows[3] - 1)
                  => HistogramMatchesAt(i)

\* A returned MACDResult with an index where the MACD line is not 0 and the
\* signal line and the histogram are both the 0 written for an undefined value.
HistogramZeroInSignalWarmup ==
    /\ MACDReturned
    /\ \E i \in 1..Len(df) :
          /\ i >= macd_windows[2]
          /\ i < macd_windows[2] + macd_windows[3] - 1
          /\ MACD.macd_line[i].num # 0
          /\ MACD.signal_line[i] = Rat(0, 1)
          /\ MACD.histogram[i] = Rat(0, 1)

\* A returned MACDResult whose signal line is defined and not 0 at the end.
SignalLineDefined ==
    /\ MACDReturned
    /\ MACD.current_signal # None
    /\ MACD.current_signal.num # 0
    /\ MACD.current_histogram.num # 0

MAReturned == Returned("_calculate_ma")

\* The MAResult that _calculate_ma returned.
SMA == ind_results["_calculate_ma"]

\* closes first..last of df added up
RECURSIVE SumOfCloses(_, _)
SumOfCloses(first, last) ==
    IF first > last THEN 0 ELSE df[first].close + SumOfCloses(first + 1, last)

\* C23: for a series of n >= period candles the values of the returned
\* SMA(period) have n entries; the first period - 1 are 0, every later entry i
\* is the mean of closes i - period + 1 .. i, and current_value is the last
\* entry.
C23_SMAValuesAligned ==
    (MAReturned /\ Len(df) >= period) =>
        /\ Len(SMA.values) = Len(df)
        /\ \A i \in 1..Len(df) :
              IF i < period THEN SMA.values[i] = Rat(0, 1)
              ELSE Equal(SMA.values[i],
                         Rat(SumOfCloses(i - period + 1, i), period))
        /\ SMA.current_value = SMA.values[Len(df)]

\* _calculate_ma has returned for a series longer than the period whose
\* closes differ.
C23_Witness ==
    /\ MAReturned
    /\ Len(df) > period
    /\ \E i, j \in 1..Len(df) : df[i].close # df[j].close
    /\ SMA.period = period



(***************************************************************************)
(* More claims about the support/resistance engine (checked under SpecSR). *)
(***************************************************************************)

\* The levels of the returned SupportResistanceResult.
ReturnedLevels ==
    Range(sr_result.support_levels) \cup Range(sr_result.resistance_levels)
        \cup ({sr_result.nearest_support, sr_result.nearest_resistance} \ {None})

\* distance = |price - current_price| / current_price * 100
IsAbsoluteDistance(distance, price) ==
    /\ distance.den > 0
    /\ distance.num * sr_result.current_price
          = Abs(price - sr_result.current_price) * 100 * distance.den

\* C24: every level of a returned SupportResistanceResult has
\* distance_from_current = |price - current_price| / current_price * 100,
\* whatever distance the detection stage had stored; current_price is the
\* last close.
C24_DistanceRecomputed ==
    sr_pc = "done" =>
        /\ sr_result.current_price = df_close[Len(df_close)]
        /\ \A level \in ReturnedLevels :
              IsAbsoluteDistance(level.distance_from_current, level.price)

\* A returned support level and a returned nearest resistance whose detection
\* stage had stored another distance.
C24_Witness ==
    /\ sr_pc = "done"
    /\ \E k \in 1..Len(sr_result.support_levels), i \in 1..Len(detected_levels) :
          /\ detected_levels[i].price = sr_result.support_levels[k].price
          /\ detected_levels[i].strength = sr_result.support_levels[k].strength
          /\ ~IsAbsoluteDistance(detected_levels[i].distance_from_current,
                                    detected_levels[i].price)
    /\ sr_result.nearest_resistance # None
    /\ \E i \in 1..Len(detected_levels) :
          /\ detected_levels[i].price = sr_result.nearest_resistance.price
          /\ ~IsAbsoluteDistance(detected_levels[i].distance_from_current,
                                    detected_levels[i].price)



(***************************************************************************)
(* Claims about the endpoints (checked under SpecRouter).                  *)
(***************************************************************************)

Answered == rt_pc = "answered"

\* C25: a quick-analysis request for which the service has a response (the
\* timeframe has at least 50 candles) is answered with that response, and the
\* response carries the AI commentary or, when the commentary failed, its
\* fallback string.
C25_QuickAnalysisReturnsResponse ==
    (Answered /\ http_request.route = "quick" /\ service_outcome = "response") =>
        /\ http_response.status_code = 200
        /\ http_response.body # None
        /\ http_response.body.gemini_opinion # None

\* What the code does: every quick-analysis request is answered with status
\* 500 for the TypeError of the call, and the body of analyze_stock never
\* runs.
QuickAnalysisAlwaysFails ==
    (Answered /\ http_request.route = "quick") =>
        /\ http_response = HTTPException(500, Exception("TypeError", 0))
        /\ service_calls = <<>>

\* A quick-analysis request the service has a response for was answered 500.
QuickAnalysisFailed ==
    /\ Answered
    /\ http_request.route = "quick"
    /\ service_outcome = "response"
    /\ http_request.timeframes = <<"1day">>
    /\ http_response.status_code = 500

\* C29: a POST request naming a timeframe outside the valid list is answered
\* with status 400 and analyze_stock is not invoked; a ValueError of the
\* service is answered with 400 and any other error of the service with 500.
C29_InvalidTimeframeAnswered400 ==
    (Answered /\ http_request.route = "post") =>
        IF invalid_timeframes(http_request.timeframes) # <<>>
        THEN http_response.status_code = 400 /\ service_calls = <<>>
        ELSE /\ service_outcome = "ValueError" => http_response.status_code = 400
             /\ service_outcome = "Exception" => http_response.status_code = 500

\* What the code does: an invalid timeframe is answered with 500, the detail
\* being the HTTPException(400) the validation raised; analyze_stock is not
\* invoked. With valid timeframes a response is returned with 200, a
\* ValueError answered with 400 and another error with 500, after one call.
PostAnswers ==
    (Answered /\ http_request.route = "post") =>
        IF invalid_timeframes(http_request.timeframes) # <<>>
        THEN /\ http_response = HTTPException(500, Exception("HTTPException", 400))
             /\ service_calls = <<>>
        ELSE /\ service_calls = <<http_request>>
             /\ service_outcome = "response" =>
                    http_response = Returns(TechnicalAnalysisResponse(http_request))
             /\ service_outcome = "ValueError" => http_response.status_code = 400
             /\ service_outcome = "Exception" => http_response.status_code = 500

\* A POST request with a valid and an invalid timeframe was answered 500.
InvalidTimeframeAnswered500 ==
    /\ Answered
    /\ http_request.route = "post"
    /\ http_request.timeframes = <<"1day", "2hour">>
    /\ http_response.status_code = 500

\* A POST request with valid timeframes got its response.
PostReturned ==
    /\ Answered
    /\ http_request.route = "post"
    /\ http_response.status_code = 200
    /\ Len(http_request.timeframes) = 2


(***************************************************************************)
(* Claims about AuthService (checked under SpecAuth).                      *)
(***************************************************************************)

\* The call failed: status "failed" or return value False.
Failed(entry) ==
    entry.result = AuthResponse("failed") \/ entry.result = ReturnValue(FALSE)

LastCall == auth_log[Len(auth_log)]

\* C30: after any sequence of generate_session and
\* initialize_with_access_token calls, a last call that failed has left the
\* stored access_token as it was before the call, and get_kite_instance
\* returns a client only if some call succeeded.
C30_FailedAttemptLeavesToken ==
    /\ (auth_log # <<>> /\ Failed(LastCall)) =>
           /\ LastCall.before = LastCall.after
           /\ access_token = LastCall.before
    /\ get_kite_instance # None =>
           \E k \in 1..Len(auth_log) : ~Failed(auth_log[k])

\* What holds of the code: a failed generate_session leaves the token as it
\* was, and the stored token is always the one the log says the last call
\* left.
FailedSessionLeavesToken ==
    auth_log # <<>> =>
        /\ access_token = LastCall.after
        /\ (LastCall.call = "generate_session" /\ Failed(LastCall)) =>
               LastCall.before = LastCall.after

\* After a session was opened, initialize_with_access_token returned False for
\* an expired token and the stored token is the expired one.
FailedInitializeReplacedToken ==
    /\ Len(auth_log) = 2
    /\ ~Failed(auth_log[1])
    /\ LastCall.call = "initialize_with_access_token"
    /\ LastCall.result = ReturnValue(FALSE)
    /\ LastCall.before = SessionToken
    /\ access_token = Token("access_expired")

\* No call has succeeded and get_kite_instance returns a client.
ClientWithoutSuccess ==
    /\ auth_log # <<>>
    /\ \A k \in 1..Len(auth_log) : Failed(auth_log[k])
    /\ get_kite_instance # None


(***************************************************************************)
(* Claims about recent-break detection (checked under SpecSR).             *)
(***************************************************************************)

\* The tag of a break agrees with the side of the current close its level is
\* on.
TagFollowsPrice(break_info) ==
    /\ break_info.break_type = "breakdown" => break_info.level_price < current_price
    /\ break_info.break_type = "breakout" => break_info.level_price >= current_price

\* C27: every entry of key_level_breaks tagged breakdown refers to a level
\* whose price is below the current close and every entry tagged breakout to a
\* level whose price is at or above it, for all detected levels, those dropped
\* as duplicates included.
C27_BreakTagFollowsCurrentPrice ==
    BreaksDetected =>
        \A k \in 1..Len(key_level_breaks) : TagFollowsPrice(key_level_breaks[k])

\* The levels the merge step kept, in the order of all_levels.
KeptLevels ==
    LET kept == Range(unique_levels(detected_levels))
        refs == SelectSeq([i \in 1..Len(all_levels) |-> i], LAMBDA i : i \in kept)
    IN [j \in 1..Len(refs) |-> all_levels[refs[j]]]

\* What holds of the code: the breaks of the levels that were kept are tagged
\* by the side of the current close the level is on.
KeptLevelBreaksFollowPrice ==
    BreaksDetected =>
        LET breaks == AllBreaksFrom(df_close, KeptLevels, 1)
        IN \A k \in 1..Len(breaks) : TagFollowsPrice(breaks[k])

\* A break tagged breakout of a level below the current close is returned.
BreakoutBelowCurrentClose ==
    /\ sr_pc = "done"
    /\ \E k \in 1..Len(sr_result.key_level_breaks) :
          /\ sr_result.key_level_breaks[k].break_type = "breakout"
          /\ sr_result.key_level_breaks[k].level_price < current_price

\* A kept level was broken.
KeptLevelBroken ==
    /\ BreaksDetected
    /\ AllBreaksFrom(df_close, KeptLevels, 1) # <<>>


(***************************************************************************)
(* Claims about the detection stages (checked under SpecStages).           *)
(***************************************************************************)

HorizontalDetected == stage_pc \in {"volume", "merge", "classify", "raised"}

\* The distinct high, low and close prices of df.
DistinctPrices ==
    {df[t].high : t \in DOMAIN df} \cup {df[t].low : t \in DOMAIN df}
        \cup {df[t].close : t \in DOMAIN df}

\* The prices of S in ascending order.
RECURSIVE AscendingFrom(_)
AscendingFrom(S) ==
    IF S = {} THEN <<>>
    ELSE LET lowest == CHOOSE p \in S : \A q \in S : p <= q
         IN <<lowest>> \o AscendingFrom(S \ {lowest})

SortedPrices == AscendingFrom(DistinctPrices)

\* The sum of the s-th to the e-th price.
RECURSIVE RunSum(_, _, _)
RunSum(prices, s, e) == IF s > e THEN 0 ELSE prices[e] + RunSum(prices, s, e - 1)

\* How far the i-th price is from the mean of the s-th to the (i-1)-th, times
\* the number of these, and 0.5% of that mean, times the same number and 200.
AwayFromMean(prices, i, s) == Abs(prices[i] * (i - s) - RunSum(prices, s, i - 1)) * 200

HalfPercentOfMean(prices, i, s) == RunSum(prices, s, i - 1)

\* Where the group of each price starts: the first price starts a group, and
\* each later price joins the group of the price before it exactly when it is
\* within 0.5% of the mean of that group's members so far, and else starts a
\* group.
GroupStart(prices) ==
    LET start[i \in 1..Len(prices)] ==
            IF i = 1 THEN 1
            ELSE LET before == start[i - 1]
                 IN IF AwayFromMean(prices, i, before)
                          <= HalfPercentOfMean(prices, i, before)
                    THEN before
                    ELSE i
    IN [i \in 1..Len(prices) |-> start[i]]

\* The closed groups as <<first, last>>: the runs of prices with one start.
ClosedGroups(starts) ==
    {<<starts[e], e>> :
        e \in {i \in DOMAIN starts : i = Len(starts) \/ starts[i + 1] = i + 1}}

\* Those of at least 2 members, and the k-th of them in ascending order.
LevelGroups(starts) == {g \in ClosedGroups(starts) : g[2] - g[1] + 1 >= 2}

LevelGroup(starts, k) ==
    CHOOSE g \in LevelGroups(starts) :
        Cardinality({h \in LevelGroups(starts) : h[1] < g[1]}) = k - 1

\* The level is the one of the group: its price the mean, its touches the
\* member count, its strength min(10, 2 * touches).
IsLevelOfGroup(level, prices, g) ==
    LET members == g[2] - g[1] + 1
    IN /\ Equal(level.price, Rat(RunSum(prices, g[1], g[2]), members))
       /\ level.touches = members
       /\ Equal(level.strength, Rat(Min(10, 2 * members), 1))

\* C26: horizontal clustering walks the distinct high/low/close prices in
\* ascending order, a price joining the current group exactly when it is
\* within 0.5% of the mean of the group's members so far; every closed group
\* of at least 2 members, the last included, yields exactly one level whose
\* price is the group mean, touches the member count and strength
\* min(10, 2 * touches), and single-member groups yield none.
C26_HorizontalLevelsAreGroups ==
    HorizontalDetected =>
        LET prices == SortedPrices
            starts == GroupStart(prices)
        IN /\ Len(horizontal_levels) = Cardinality(LevelGroups(starts))
           /\ \A k \in 1..Len(horizontal_levels) :
                  IsLevelOfGroup(horizontal_levels[k], prices, LevelGroup(starts, k))

\* A series with a single-member group, a group of at least 2 members that
\* was closed by a price beyond 0.5% of its mean, and a last group of at
\* least 2 members.
C26_Witness ==
    /\ HorizontalDetected
    /\ LET starts == GroupStart(SortedPrices)
       IN /\ \E g \in ClosedGroups(starts) : g[1] = g[2]
          /\ \E g \in LevelGroups(starts) : g[2] < Len(starts)
          /\ \E g \in LevelGroups(starts) : g[2] = Len(starts)
    /\ Len(horizontal_levels) >= 2

\* A group of 6 members: its level has strength 10, not 12.
StrengthCapped ==
    /\ HorizontalDetected
    /\ \E k \in 1..Len(horizontal_levels) :
          /\ horizontal_levels[k].touches >= 6
          /\ Equal(horizontal_levels[k].strength, Rat(10, 1))

\* A price exactly 0.5% from the mean of its group joined it.
JoinedAtThreshold ==
    /\ HorizontalDetected
    /\ LET prices == SortedPrices
           starts == GroupStart(prices)
       IN \E i \in 2..Len(prices) :
             /\ starts[i] < i
             /\ AwayFromMean(prices, i, starts[i])
                    = HalfPercentOfMean(prices, i, starts[i])

\* Highs and lows are all equal: the overall price range is zero.
IsFlatSeries == \A t \in DOMAIN df : df[t].high = df[1].high /\ df[t].low = df[1].high

StagesFinished == stage_pc \in {"classify", "raised"}

\* C28: for every series of at least 50 candles, a series whose highs and lows
\* are all equal included, the detection stages of
\* _calculate_support_resistance do not raise, and for a flat series the
\* volume-profile stage yields no level.
C28_FlatSeriesIsAnalyzed ==
    /\ Len(df) >= MinCandles => stage_raised = None
    /\ (StagesFinished /\ IsFlatSeries) =>
           /\ stage_pc = "classify"
           /\ volume_levels = <<>>

\* What holds of the code: a stage raises for the flat series only, and
\* for every other series the three lists are merged.
OnlyFlatSeriesRaises ==
    StagesFinished =>
        /\ (stage_pc = "raised") = IsFlatSeries
        /\ stage_pc = "classify" =>
               merged_levels = pivot_levels \o horizontal_levels \o volume_levels

\* The volume-profile stage raised for a flat series of at least 50 candles,
\* after the other two stages found no level.
FlatSeriesRaised ==
    /\ stage_pc = "raised"
    /\ IsFlatSeries
    /\ Len(df) >= MinCandles
    /\ stage_raised.error = "ValueError"
    /\ pivot_levels = <<>>
    /\ horizontal_levels = <<>>

\* A series with a range was analyzed: every stage found a level.
RangedSeriesMerged ==
    /\ stage_pc = "classify"
    /\ pivot_levels # <<>>
    /\ horizontal_levels # <<>>
    /\ volume_levels # <<>>

====
